---- MODULE Spec2Model ----
(***************************************************************************)
(* A model of the stablecoin transfer pipeline: the chain-tail poller      *)
(* (block-monitor/src/monitor.rs), the Transfer-log decoder                *)
(* (block-monitor/src/services/blockchain.rs), the composite publisher     *)
(* (block-monitor/src/services/publisher.rs) and the stream consumer       *)
(* (game-server/src/message/processor.rs, game-server/src/redis).          *)
(***************************************************************************)
EXTENDS Integers, Sequences, FiniteSets, TLC

(***************************************************************************)
(* Bounds of the model.                                                    *)
(***************************************************************************)
MaxHeight == 3      \* block numbers and chain heights range over 0..MaxHeight
MaxBatch == 2       \* blocks_per_batch ranges over 1..MaxBatch
MaxStart == 1       \* a configured start_block ranges over 0..MaxStart
MaxErrors == 2      \* at most this many failed blocks are injected
MaxLogs == 2        \* a fetched block carries at most this many logs
MaxWord == 2        \* 32-byte words (topics) range over 0..MaxWord
AddrModulus == 2    \* the low 20 bytes of a word w are w % AddrModulus
MaxTopics == 3      \* a log carries at most this many topics
MaxValue == 1       \* raw amounts range over 0..MaxValue
MaxSinks == 3       \* a CompositePublisher holds at most this many sinks
MaxEntries == 3     \* at most this many entries are appended to the stream
MaxBatchSize == 2   \* batch_size ranges over 1..MaxBatchSize
MaxReads == 3       \* at most this many batches are read
MaxFailures == 5    \* at most this many read and delivery failures are injected
MaxRestarts == 1    \* the game-server process is started again at most this many times
MaxClients == 3     \* client ids range over 1..MaxClients
MaxChannels == 3    \* at most this many connections (channels) are ever opened
MaxQueued == 2      \* broadcasts stop when a client's queue holds this many messages
QueueCapacity == 1  \* a capacity the send queue of a client could be configured with
MaxAmount == 30     \* raw amounts of a transfer on the wire range over 0..MaxAmount
MaxDecimals == 3    \* token decimals range over 0..MaxDecimals
MaxBlockNo == 11    \* block numbers of a transfer on the wire range over 0..MaxBlockNo
MaxMembers == 2     \* client ids of the registry under its lock range over 1..MaxMembers
MaxHandlers == 1    \* connection handlers inside a call of the ClientManager at a time
MaxTimeout == 1     \* client_timeout_secs ranges over 0..MaxTimeout
MaxConns == 2       \* WebSocket connections accepted, each with its own client id
MaxRetries == 6     \* max_retries of connect_with_retry ranges over 0..MaxRetries
MaxDeliveries == 1  \* sends of one broadcast that succeed, and that fail: 0..MaxDeliveries
MaxPublishes == 2   \* calls of RedisPublisher::publish after the connection attempt

(***************************************************************************)
(* Program constants.                                                      *)
(***************************************************************************)
None == -1                 \* Option::None of an Option<u64>
TransferSig == 1           \* keccak256("Transfer(address,address,uint256)")
MinTopics == 3             \* topics needed by a Transfer event
MinDataLen == 32           \* bytes of data needed by a Transfer event
InitialDelaySecs == 1      \* Duration::from_secs(1), the first delay of connect_with_retry
MaxDelaySecs == 30         \* Duration::from_secs(30), the cap of the delay
MaxConsecutiveErrors == 5  \* max_consecutive_errors of MessageProcessor::run
GroupStartId == 0          \* the id given to XGROUP CREATE: the group starts before the first entry

Min(a, b) == IF a <= b THEN a ELSE b

Range(s) == {s[i] : i \in DOMAIN s}

\* the consecutive numbers lo..hi in ascending order (empty when hi < lo)
Consecutive(lo, hi) == [i \in 1..(hi - lo + 1) |-> lo + i - 1]

RECURSIVE SeqsUpTo(_, _)
SeqsUpTo(S, n) ==
    IF n = 0 THEN {<<>>}
    ELSE LET shorter == SeqsUpTo(S, n - 1)
         IN shorter \cup {Append(s, x) : s \in {t \in shorter : Len(t) = n - 1}, x \in S}

VARIABLES
    \* ---- StablecoinMonitor (block-monitor/src/monitor.rs) ----
    start_block,            \* config.chain.start_block : Option<u64>
    blocks_per_batch,       \* config.chain.blocks_per_batch
    last_processed_block,   \* state.last_processed_block : Option<u64>
    metrics,                \* state.metrics : MonitorMetrics
    pc,                     \* where run() is: Idle, CatchingUp, Failed, Shutdown
    blocks_to_process,      \* the rest of the range the for loop walks
    shutdown_signal,        \* ctrl_c has been delivered to the process
    chainHeight,            \* the latest block the RPC endpoint last reported
    \* ---- history of the poller (not program state) ----
    rangeOf,                \* the range get_block_range returned to the last tick
    tickAttempts,           \* the blocks the last tick handled, with their outcomes
    processed,              \* blocks whose processing returned Ok, in order
    \* ---- EventDecoder (block-monitor/src/services/blockchain.rs) ----
    decoder_log,            \* the log handed to parse_transfer_log
    parse_result,           \* what parse_transfer_log returned for it
    \* ---- CompositePublisher (block-monitor/src/services/publisher.rs) ----
    publishers,             \* CompositePublisher::publishers, the kinds of the sinks
    pub_pc,                 \* where publish_all is: idle, loop, returned, raised
    pub_idx,                \* the sink the for loop of publish_all is at
    sink_calls,             \* the publish calls made for the current transfer
    \* ---- the durable stream and its consumer group (Redis) ----
    stream,                 \* the entries appended so far; an entry's id is its position
    group_last_delivered,   \* the group's last-delivered id
    pel,                    \* the group's pending entries: delivered, not acknowledged
    group_created,          \* whether the consumer group exists on the stream
    entries_at_creation,    \* how many entries the stream held when the group was created
    \* ---- MessageProcessor (game-server/src/message/processor.rs) ----
    batch_size,             \* RedisConfig::batch_size
    cpc,                    \* where run() is: read, deliver, ack, stopped
    messages,               \* process_batch: the messages the for loop has yet to handle
    batch_count,            \* process_batch: processed
    consecutive_errors,     \* run: consecutive_errors
    proc_metrics,           \* ProcessorMetrics
    events,                 \* the broadcast and acknowledge calls made, in order
    restarts,               \* how many times the game-server process was started again
    \* ---- ClientManager (game-server/src/websocket/client_manager.rs) ----
    clients,                \* the registry: client id -> the channel its sender feeds
    channels,               \* the channels made so far: open or not, messages queued
    bc_pc,                  \* where broadcast / ping_all is: idle, cleanup
    bc_failed,              \* the failed ids the cleanup loop has yet to remove
    bc_result,              \* the BroadcastResult being built
    bc_disturbed,           \* whether a client was added or removed during the cleanup
    reg_last,               \* the last call on the registry and what it returned
    \* ---- one transfer on its way from the monitor to the game server ----
    wire_tx,                \* the Transaction: raw amount, decimals, block number
    wire_msg,               \* the TransactionMessage made by Transaction::to_message
    wire_entry,             \* the fields of the stream entry written by the sink
    wire_decoded,           \* what StreamMessage::from_redis_stream made of the entry
    \* ---- one call of StablecoinMonitor::process_single_block ----
    blk_in,                 \* the block number and what the RPC endpoint answers
    blk_out,                \* what the call returned and handed to publish_all
    \* ---- ClientManager under its lock, one task per caller ----
    members,                \* ClientManager.clients: id -> whole seconds since last_activity
    client_timeout_secs,    \* WebSocketConfig.client_timeout_secs
    readers,                \* the tasks that hold a read guard of clients
    waiters,                \* the tasks waiting for a guard of clients, first come first
    task,                   \* per task: the call it is in and where in it
    \* ---- handle_connection: the life of each accepted connection ----
    conn_pc,                \* per connection: where its handle_connection is
    conn_clients,           \* ClientManager.clients: the registered client ids
    conn_rx,                \* per connection: the receiving half of its channel is alive
    conn_marked,            \* ids a broadcast, ping_all or cleanup_inactive is about to remove
    conn_over,              \* per connection: the first event that ends its registration
    \* ---- RedisPublisher::connect_with_retry and publish ----
    max_retries,            \* the max_retries argument
    retry_count,            \* retry_count
    delay,                  \* delay, in seconds
    connection,             \* "connecting", then Some(conn) or None
    slept,                  \* the delays slept so far, in order
    failed_attempts,        \* connection attempts that failed
    publish_calls,          \* publish calls that have returned
    xadds,                  \* XADD commands publish has issued
    \* ---- what the poller handed to publish_all, over all ticks ----
    handed,                 \* <<block, log index>> -> times handed to publish_all
    attempted,              \* blocks attempted (calls of process_single_block)
    \* ---- what the broadcast of the message processor returned ----
    last_broadcast          \* BroadcastResult of the latest broadcast

pollerVars == <<start_block, blocks_per_batch, last_processed_block, metrics, pc,
                blocks_to_process, shutdown_signal, chainHeight,
                rangeOf, tickAttempts, processed>>

decoderVars == <<decoder_log, parse_result>>

publisherVars == <<publishers, pub_pc, pub_idx, sink_calls>>

streamVars == <<stream, group_last_delivered, pel, group_created, entries_at_creation>>

consumerVars == <<batch_size, cpc, messages, batch_count, consecutive_errors, proc_metrics,
                  events, restarts>>

registryVars == <<clients, channels, bc_pc, bc_failed, bc_result, bc_disturbed, reg_last>>

wireVars == <<wire_tx, wire_msg, wire_entry, wire_decoded>>

blockVars == <<blk_in, blk_out>>
lockVars == <<members, client_timeout_secs, readers, waiters, task>>
connVars == <<conn_pc, conn_clients, conn_rx, conn_marked, conn_over>>
retryVars == <<max_retries, retry_count, delay, connection, slept, failed_attempts,
               publish_calls, xadds>>
handedVars == <<handed, attempted>>
deliveryVars == <<last_broadcast>>

vars == <<pollerVars, decoderVars, publisherVars, streamVars, consumerVars, registryVars,
          wireVars, blockVars, lockVars, connVars, retryVars, handedVars, deliveryVars>>

(***************************************************************************)
(* Logs and EventDecoder: BlockchainService::parse_transfer_log.           *)
(***************************************************************************)
Words == 0..MaxWord
DataLens == {0, MinDataLen - 1, MinDataLen, MinDataLen + 1}

Logs == [monitored : BOOLEAN,                        \* token_registry.get(log.address())
         topics : SeqsUpTo(Words, MaxTopics),
         datalen : DataLens,                         \* log.data().data.len()
         value : 0..MaxValue,                        \* the first 32 bytes, big-endian
         has_tx_hash : BOOLEAN,                      \* log.transaction_hash.is_some()
         has_block_number : BOOLEAN]                 \* log.block_number.is_some()

\* Address::from_slice(&topic[12..]): the low 20 bytes of a 32-byte word
Low20(w) == w % AddrModulus

ParseNone == [kind |-> "None"]
ParseErr(why) == [kind |-> "Err", error |-> why]
ParseSome(from, to, value) == [kind |-> "Some", from |-> from, to |-> to, value |-> value]

parse_transfer_log(log) ==
    IF ~log.monitored THEN ParseNone
    ELSE IF Len(log.topics) < MinTopics THEN ParseNone
    ELSE IF log.topics[1] # TransferSig THEN ParseNone
    ELSE IF log.datalen < MinDataLen THEN ParseErr("Invalid data length for Transfer event")
    ELSE IF ~log.has_tx_hash THEN ParseErr("Missing transaction hash")
    ELSE IF ~log.has_block_number THEN ParseErr("Missing block number")
    ELSE ParseSome(Low20(log.topics[2]), Low20(log.topics[3]), log.value)

(***************************************************************************)
(* What the RPC endpoint may answer for one block.                         *)
(***************************************************************************)
GoodLog == [monitored |-> TRUE, topics |-> <<TransferSig, 0, 1>>, datalen |-> MinDataLen,
            value |-> 1, has_tx_hash |-> TRUE, has_block_number |-> TRUE]
ForeignLog == [GoodLog EXCEPT !.topics = <<0, 0, 1>>]
ShortDataLog == [GoodLog EXCEPT !.datalen = 0]
BlockLogs == {GoodLog, ForeignLog, ShortDataLog}

\* get_logs answers Err (with the text of the provider's error), or Ok with a
\* list of logs; get_block_by_number answers
\* the block (a timestamp), no block, or Err
\* (asked only about a block that has logs)
FetchResults == [ok : {FALSE}, logs : {<<>>}, ts : {"unasked"},
                 err : {"rpc", "deserialization"}]
                \cup {[ok |-> TRUE, logs |-> <<>>, ts |-> "unasked", err |-> ""]}
                \cup [ok : {TRUE}, logs : SeqsUpTo(BlockLogs, MaxLogs) \ {<<>>},
                      ts : {"some", "none", "err"}, err : {""}]

\* the Err of get_logs whose text carries the provider's malformed-block-data mark
MalformedBlockData == [ok |-> FALSE, logs |-> <<>>, ts |-> "unasked",
                       err |-> "deserialization"]

\* BlockchainService::get_block_timestamp: TRUE when a timestamp is returned
get_block_timestamp(ts) == ts = "some"

(***************************************************************************)
(* StablecoinMonitor::process_single_block on one fetch result: the        *)
(* result (Ok(count) or Err) and the transfers it handed to publish_all    *)
(* before it returned.                                                     *)
(***************************************************************************)
RECURSIVE WalkLogs(_, _, _, _, _)
WalkLogs(logs, i, block, with_ts, acc) ==
    IF i > Len(logs) THEN [ok |-> TRUE, count |-> Len(acc), sent |-> acc]
    ELSE LET r == parse_transfer_log(logs[i])
         IN IF r.kind = "Err" THEN [ok |-> FALSE, count |-> 0, sent |-> acc]
            ELSE IF r.kind = "Some"
                 THEN WalkLogs(logs, i + 1, block, with_ts,
                               Append(acc, [block |-> block, log |-> i, with_ts |-> with_ts]))
                 ELSE WalkLogs(logs, i + 1, block, with_ts, acc)

\* variant: an Err of the timestamp fetch is returned by process_single_block
process_single_block_needs_timestamp(block, res) ==
    IF ~res.ok \/ res.ts = "err" THEN [ok |-> FALSE, count |-> 0, sent |-> <<>>]
    ELSE IF res.logs = <<>> THEN [ok |-> TRUE, count |-> 0, sent |-> <<>>]
    ELSE WalkLogs(res.logs, 1, block, get_block_timestamp(res.ts), <<>>)

process_single_block(block, res) ==
    IF ~res.ok THEN [ok |-> FALSE, count |-> 0, sent |-> <<>>]
    ELSE IF res.logs = <<>> THEN [ok |-> TRUE, count |-> 0, sent |-> <<>>]
    ELSE WalkLogs(res.logs, 1, block, get_block_timestamp(res.ts), <<>>)

InitBlock ==
    /\ blk_in \in [block : 0..MaxHeight, res : FetchResults]
    /\ blk_out = [unset |-> TRUE]

QuietBlock ==
    /\ blk_in = [block |-> 0, res |-> [ok |-> TRUE, logs |-> <<>>, ts |-> "unasked", err |-> ""]]
    /\ blk_out = [unset |-> TRUE]

\* process_single_block(block_num) is called and returns
ProcessSingleBlock ==
    /\ blk_out = [unset |-> TRUE]
    /\ blk_out' = process_single_block(blk_in.block, blk_in.res)
    /\ UNCHANGED blk_in

(***************************************************************************)
(* MonitorMetrics.                                                         *)
(***************************************************************************)
MetricsDefault == [blocks_processed |-> 0, transactions_found |-> 0,
                   last_block_processed |-> 0, errors_count |-> 0,
                   redis_publishes |-> 0, websocket_broadcasts |-> 0]

record_block(m, block_num) ==
    [m EXCEPT !.blocks_processed = @ + 1, !.last_block_processed = block_num]

\* variant: the counter is set to the count of the block
record_transactions_set(m, count) == [m EXCEPT !.transactions_found = count]

record_transactions(m, count) == [m EXCEPT !.transactions_found = @ + count]

record_error(m) == [m EXCEPT !.errors_count = @ + 1]

\* no caller in the program
record_redis_publish(m) == [m EXCEPT !.redis_publishes = @ + 1]

\* no caller in the program
record_websocket_broadcast(m) == [m EXCEPT !.websocket_broadcasts = @ + 1]

(***************************************************************************)
(* StablecoinMonitor::get_block_range.                                     *)
(***************************************************************************)
\* variant: the cursor is ignored in favour of the configured start block
get_block_range_from_config(last, start_cfg, batch, latest_block) ==
    LET first == IF start_cfg # None THEN start_cfg
                 ELSE IF last # None THEN last + 1 ELSE latest_block
        end_block == Min(latest_block, first + batch - 1)
    IN IF first > latest_block THEN <<>>
       ELSE [i \in 1..(end_block - first + 1) |-> first + i - 1]

\* variant: the end of the range is one block too far
get_block_range_one_more(last, start_cfg, batch, latest_block) ==
    LET first == IF last # None THEN last + 1
                 ELSE IF start_cfg # None THEN start_cfg ELSE latest_block
        end_block == Min(latest_block, first + batch)
    IN IF first > latest_block THEN <<>>
       ELSE [i \in 1..(end_block - first + 1) |-> first + i - 1]

\* variant: a first run starts after the head
get_block_range_after_head(last, start_cfg, batch, latest_block) ==
    LET first == IF last # None THEN last + 1
                 ELSE IF start_cfg # None THEN start_cfg ELSE latest_block + 1
        end_block == Min(latest_block, first + batch - 1)
    IN IF first > latest_block THEN <<>>
       ELSE [i \in 1..(end_block - first + 1) |-> first + i - 1]

get_block_range(last, start_cfg, batch, latest_block) ==
    LET first == IF last # None THEN last + 1
                 ELSE IF start_cfg # None THEN start_cfg ELSE latest_block
        end_block == Min(latest_block, first + batch - 1)
    IN IF first > latest_block THEN <<>>
       ELSE [i \in 1..(end_block - first + 1) |-> first + i - 1]

(***************************************************************************)
(* StablecoinMonitor::new and run.                                         *)
(***************************************************************************)
InitPoller ==
    /\ start_block \in {None} \cup 0..MaxStart
    /\ blocks_per_batch \in 1..MaxBatch
    /\ last_processed_block = start_block
    /\ metrics = MetricsDefault
    /\ pc = "Idle"
    /\ blocks_to_process = <<>>
    /\ shutdown_signal = FALSE
    /\ chainHeight \in 0..MaxHeight
    /\ rangeOf = <<>>
    /\ tickAttempts = <<>>
    /\ processed = <<>>

\* interval.tick(), then process_new_blocks: get_latest_block returns Err, which
\* process_new_blocks and then run propagate with `?`
TickFail ==
    /\ pc = "Idle"
    /\ pc' = "Failed"
    /\ UNCHANGED <<start_block, blocks_per_batch, last_processed_block, metrics,
                   blocks_to_process, shutdown_signal, chainHeight,
                   rangeOf, tickAttempts, processed>>

\* interval.tick(), then process_new_blocks up to its for loop: get_latest_block
\* returns Ok(latest_block)
TickOk(latest_block) ==
    /\ pc = "Idle"
    /\ LET blocks == get_block_range(last_processed_block, start_block,
                                     blocks_per_batch, latest_block)
       IN /\ blocks_to_process' = blocks
          /\ rangeOf' = blocks
          /\ pc' = IF blocks = <<>> THEN "Idle" ELSE "CatchingUp"
    /\ tickAttempts' = <<>>
    /\ chainHeight' = latest_block
    /\ UNCHANGED <<start_block, blocks_per_batch, last_processed_block, metrics,
                   shutdown_signal, processed>>

\* the Ok and Err arms of the match in process_new_blocks: the cursor after a block
CursorAfter(last, block_num, ok) == IF ok THEN block_num ELSE last

\* variant: a failed block ends the batch
RestAfterAbort(blocks, ok) == IF ok THEN Tail(blocks) ELSE <<>>

\* the for loop of process_new_blocks goes on to the next block whatever the outcome
RestAfter(blocks, ok) == Tail(blocks)

\* one iteration of the for loop of process_new_blocks
ProcessBlock(res) ==
    /\ pc = "CatchingUp"
    /\ blocks_to_process # <<>>
    /\ LET block_num == Head(blocks_to_process)
           r == process_single_block(block_num, res)
       IN /\ r.ok \/ metrics.errors_count < MaxErrors
          /\ metrics' = IF r.ok
                        THEN record_transactions(record_block(metrics, block_num), r.count)
                        ELSE record_error(metrics)
          /\ last_processed_block' = CursorAfter(last_processed_block, block_num, r.ok)
          /\ processed' = IF r.ok THEN Append(processed, block_num) ELSE processed
          /\ tickAttempts' = Append(tickAttempts,
                                    [block |-> block_num, ok |-> r.ok, sent |-> Len(r.sent)])
          /\ blocks_to_process' = RestAfter(blocks_to_process, r.ok)
          /\ pc' = IF RestAfter(blocks_to_process, r.ok) = <<>> THEN "Idle" ELSE "CatchingUp"
    /\ UNCHANGED <<start_block, blocks_per_batch, shutdown_signal, chainHeight,
                   rangeOf>>

\* the ctrl_c branch of the select in run, taken while run waits for the next
\* tick: break, shutdown(), Ok(())
Shutdown ==
    /\ pc = "Idle"
    /\ shutdown_signal' = TRUE
    /\ pc' = "Shutdown"
    /\ UNCHANGED <<start_block, blocks_per_batch, last_processed_block, metrics,
                   blocks_to_process, chainHeight, rangeOf, tickAttempts, processed>>

\* variant: the signal cuts the range short
during_range_abort(p) == "Shutdown"

\* where run is after a signal that arrives inside the tick arm of the select: the
\* arm awaits process_new_blocks to its end, the ctrl_c arm is not polled meanwhile
during_range(p) == p

\* the shutdown signal arrives while process_new_blocks works through its range
Signal ==
    /\ pc = "CatchingUp"
    /\ ~shutdown_signal
    /\ shutdown_signal' = TRUE
    /\ pc' = during_range(pc)
    /\ UNCHANGED <<start_block, blocks_per_batch, last_processed_block, metrics,
                   blocks_to_process, chainHeight, rangeOf, tickAttempts, processed>>

\* back in the select with a signal that arrived meanwhile, the ctrl_c arm is taken:
\* break, shutdown(), Ok(())
Break ==
    /\ pc = "Idle"
    /\ shutdown_signal
    /\ pc' = "Shutdown"
    /\ UNCHANGED <<start_block, blocks_per_batch, last_processed_block, metrics,
                   blocks_to_process, shutdown_signal, chainHeight, rangeOf,
                   tickAttempts, processed>>

\* every turn of the loop makes a new ctrl_c() future; whether it still reports a
\* signal that arrived before it was made is up to the signal library: it may not
SignalLost ==
    /\ pc = "Idle"
    /\ shutdown_signal
    /\ shutdown_signal' = FALSE
    /\ UNCHANGED <<start_block, blocks_per_batch, last_processed_block, metrics,
                   blocks_to_process, pc, chainHeight, rangeOf, tickAttempts, processed>>

\* the transfers handed to publish_all so far, with the transfers of sent added
HandedAfter(h, sent) ==
    LET keys == {<<sent[i].block, sent[i].log>> : i \in DOMAIN sent}
    IN [k \in DOMAIN h \cup keys |->
            (IF k \in DOMAIN h THEN h[k] ELSE 0)
            + Cardinality({i \in DOMAIN sent : <<sent[i].block, sent[i].log>> = k})]

InitHanded ==
    /\ handed = <<>>
    /\ attempted = 0

QuietHanded == InitHanded

\* one iteration of the for loop of process_new_blocks, with the publish_all calls
\* of its process_single_block noted
ProcessHanded(res) ==
    /\ ProcessBlock(res)
    /\ handed' = HandedAfter(handed,
                             process_single_block(Head(blocks_to_process), res).sent)
    /\ attempted' = attempted + 1

(***************************************************************************)
(* EventDecoder: one call of parse_transfer_log on an arbitrary log.       *)
(***************************************************************************)
Unparsed == [kind |-> "Unparsed"]

InitDecoder ==
    /\ decoder_log \in Logs
    /\ parse_result = Unparsed

QuietDecoder ==
    /\ decoder_log = GoodLog
    /\ parse_result = Unparsed

Parse ==
    /\ parse_result = Unparsed
    /\ parse_result' = parse_transfer_log(decoder_log)
    /\ UNCHANGED decoder_log

(***************************************************************************)
(* CompositePublisher::publish_all over its list of sinks.                 *)
(***************************************************************************)
SinkKinds == {"Log", "Redis", "WebSocket"}

\* what the outside answers to one publish call: whether XADD succeeds, whether
\* the message serializes, whether the broadcast channel has a receiver
SinkAnswers == [xadd_ok : BOOLEAN, json_ok : BOOLEAN, has_receiver : BOOLEAN]

\* Publisher::publish of LogPublisher, RedisPublisher and WebSocketPublisher:
\* TRUE for Ok(()), FALSE for Err
publish(kind, answer) ==
    CASE kind = "Log" -> TRUE
      [] kind = "Redis" -> answer.xadd_ok
      [] kind = "WebSocket" -> answer.json_ok

\* variant: an Err of a sink is returned to the caller of publish_all
AfterPublishPropagate(idx, ok, n) ==
    IF ~ok THEN [pc |-> "raised", idx |-> idx]
    ELSE IF idx + 1 > n THEN [pc |-> "returned", idx |-> idx + 1]
    ELSE [pc |-> "loop", idx |-> idx + 1]

\* the body of the for loop of publish_all: an Err is logged, the loop goes on
AfterPublish(idx, ok, n) ==
    IF idx + 1 > n THEN [pc |-> "returned", idx |-> idx + 1]
    ELSE [pc |-> "loop", idx |-> idx + 1]

InitPublisher ==
    /\ publishers \in SeqsUpTo(SinkKinds, MaxSinks)
    /\ pub_pc = "idle"
    /\ pub_idx = 0
    /\ sink_calls = <<>>

QuietPublisher ==
    /\ publishers = <<"Log", "WebSocket">>
    /\ pub_pc = "idle"
    /\ pub_idx = 0
    /\ sink_calls = <<>>

\* publish_all is called with a transfer
PublishAllBegin ==
    /\ pub_pc \in {"idle", "returned"}
    /\ sink_calls' = <<>>
    /\ pub_idx' = 1
    /\ pub_pc' = IF publishers = <<>> THEN "returned" ELSE "loop"
    /\ UNCHANGED publishers

\* one iteration of the for loop of publish_all
PublishStep(answer) ==
    /\ pub_pc = "loop"
    /\ LET ok == publish(publishers[pub_idx], answer)
           after == AfterPublish(pub_idx, ok, Len(publishers))
       IN /\ sink_calls' = Append(sink_calls, [sink |-> pub_idx, ok |-> ok])
          /\ pub_pc' = after.pc
          /\ pub_idx' = after.idx
    /\ UNCHANGED publishers

(***************************************************************************)
(* The durable stream, RedisConsumer and MessageProcessor.                 *)
(***************************************************************************)
\* an entry either carries the fields StreamMessage::from_redis_stream reads, or not
EntryFormats == {"ok", "bad"}

\* StreamMessage::from_redis_stream: TRUE for Ok(msg)
from_redis_stream(entry) == entry = "ok"

ProcessorMetricsNew == [messages_processed |-> 0, messages_failed |-> 0,
                        batches_processed |-> 0]

record_batch(m, count) ==
    [m EXCEPT !.batches_processed = @ + 1, !.messages_processed = @ + count]

record_failure(m) == [m EXCEPT !.messages_failed = @ + 1]

RECURSIVE SelectOkUntilBad(_, _)
\* variant: the reply is given up at the first entry that does not parse
SelectOkUntilBad(ids, entries) ==
    IF ids = <<>> THEN <<>>
    ELSE IF from_redis_stream(entries[Head(ids)])
         THEN <<Head(ids)>> \o SelectOkUntilBad(Tail(ids), entries)
         ELSE <<>>

RECURSIVE SelectOk(_, _)
\* read_pending_messages: the entries of the reply that parse, in the reply's order
SelectOk(ids, entries) ==
    IF ids = <<>> THEN <<>>
    ELSE IF from_redis_stream(entries[Head(ids)])
         THEN <<Head(ids)>> \o SelectOk(Tail(ids), entries)
         ELSE SelectOk(Tail(ids), entries)

\* variant: XGROUP CREATE positions an existing group anew
create_consumer_group_anew(exists, group) == [last_delivered |-> GroupStartId, pel |-> {}]

\* create_consumer_group, the Ok and BUSYGROUP arms: XGROUP CREATE .. "0" MKSTREAM
\* makes the group when there is none, and leaves an existing group as it is
create_consumer_group(exists, group) ==
    IF exists THEN group ELSE [last_delivered |-> GroupStartId, pel |-> {}]

\* the group made by RedisConsumer::new on a stream that does not exist yet
InitStream ==
    /\ stream = <<>>
    /\ group_created = TRUE
    /\ group_last_delivered = create_consumer_group(FALSE, <<>>).last_delivered
    /\ pel = create_consumer_group(FALSE, <<>>).pel
    /\ entries_at_creation = 0

\* a stream nobody has made a group on
InitStreamNoGroup ==
    /\ stream = <<>>
    /\ group_created = FALSE
    /\ group_last_delivered = GroupStartId
    /\ pel = {}
    /\ entries_at_creation = 0

InitConsumer ==
    /\ batch_size \in 1..MaxBatchSize
    /\ cpc = "read"
    /\ messages = <<>>
    /\ batch_count = 0
    /\ consecutive_errors = 0
    /\ proc_metrics = ProcessorMetricsNew
    /\ events = <<>>
    /\ restarts = 0

QuietConsumer ==
    /\ InitConsumer
    /\ batch_size = 1

\* the publisher side appends an entry to the stream (XADD)
XAdd(entry) ==
    /\ Len(stream) < MaxEntries
    /\ stream' = Append(stream, entry)
    /\ UNCHANGED <<group_last_delivered, pel, group_created, entries_at_creation, consumerVars>>

\* run: the Ok arm of the match on process_batch
BatchDone(count) ==
    /\ consecutive_errors' = 0
    /\ proc_metrics' = record_batch(proc_metrics, count)
    /\ cpc' = "read"
    /\ messages' = <<>>
    /\ batch_count' = 0

\* process_batch: read_pending_messages answers Ok. XREADGROUP with ">" hands
\* over up to batch_size entries after the group's last-delivered id and puts
\* them in the pending list.
ReadOk ==
    /\ cpc = "read"
    /\ group_created
    /\ proc_metrics.batches_processed < MaxReads
    /\ LET last == Min(Len(stream), group_last_delivered + batch_size)
           ids == Consecutive(group_last_delivered + 1, last)
           msgs == SelectOk(ids, stream)
       IN /\ group_last_delivered' = last
          /\ pel' = pel \cup Range(ids)
          /\ IF msgs = <<>>
             THEN BatchDone(0)
             ELSE /\ messages' = msgs
                  /\ batch_count' = 0
                  /\ cpc' = "deliver"
                  /\ UNCHANGED <<consecutive_errors, proc_metrics>>
    /\ UNCHANGED <<stream, group_created, entries_at_creation, batch_size, events, restarts>>

\* process_batch: read_pending_messages answers Err(ServerError::Redis); run counts
\* it, gives up at the fifth in a row, else handle_error sleeps and run loops
ReadFail ==
    /\ cpc = "read"
    /\ proc_metrics.messages_failed < MaxFailures
    /\ consecutive_errors' = consecutive_errors + 1
    /\ proc_metrics' = record_failure(proc_metrics)
    /\ cpc' = IF consecutive_errors + 1 >= MaxConsecutiveErrors THEN "stopped" ELSE "read"
    /\ UNCHANGED <<streamVars, batch_size, messages, batch_count, events, restarts>>

\* somebody else deletes the consumer group (XGROUP DESTROY): its position and
\* its pending list are gone
DestroyGroup ==
    /\ group_created
    /\ group_created' = FALSE
    /\ group_last_delivered' = GroupStartId
    /\ pel' = {}
    /\ UNCHANGED <<stream, entries_at_creation, consumerVars>>

\* variant: a missing group is an error of the read
on_nogroup_is_error(created) == "err"

\* read_pending_messages, the NOGROUP arm: create_consumer_group()?, then Ok(Vec::new())
on_nogroup(created) == IF created THEN "empty" ELSE "err"

\* process_batch: XREADGROUP answers NOGROUP; read_pending_messages makes the
\* group again and answers an empty batch, or returns the Err of XGROUP CREATE
ReadNoGroup(redis_ok) ==
    /\ cpc = "read"
    /\ ~group_created
    /\ IF redis_ok
       THEN LET group == create_consumer_group(group_created,
                             [last_delivered |-> group_last_delivered, pel |-> pel])
            IN /\ group_last_delivered' = group.last_delivered
               /\ pel' = group.pel
               /\ group_created' = TRUE
               /\ entries_at_creation' = Len(stream)
       ELSE UNCHANGED <<group_last_delivered, pel, group_created, entries_at_creation>>
    /\ IF on_nogroup(redis_ok) = "empty"
       THEN /\ proc_metrics.batches_processed < MaxReads
            /\ BatchDone(0)
       ELSE /\ proc_metrics.messages_failed < MaxFailures
            /\ consecutive_errors' = consecutive_errors + 1
            /\ proc_metrics' = record_failure(proc_metrics)
            /\ cpc' = IF consecutive_errors + 1 >= MaxConsecutiveErrors
                      THEN "stopped" ELSE "read"
            /\ UNCHANGED <<messages, batch_count>>
    /\ UNCHANGED <<stream, batch_size, events, restarts>>

\* variant: the entry is acknowledged whatever process_single_message returned
AfterDeliverAlwaysAck(ok) == "ack"

\* process_batch: the arms of the match on process_single_message
AfterDeliver(ok) == IF ok THEN "ack" ELSE "skip"

\* process_batch: the for loop moves to the next message, or the batch is done
NextMessage(count) ==
    IF Tail(messages) = <<>>
    THEN BatchDone(count)
    ELSE /\ messages' = Tail(messages)
         /\ batch_count' = count
         /\ cpc' = "deliver"
         /\ UNCHANGED <<consecutive_errors, proc_metrics>>

\* what ClientManager::broadcast may return: the count of sends that succeeded and
\* the count of clients whose send failed
BroadcastResults == [successful : 0..MaxDeliveries, failed : 0..MaxDeliveries]

\* variant: a broadcast that reached nobody is an error of the message
process_single_message_needs_delivery(json_ok, result) == json_ok /\ result.successful > 0

\* process_single_message: TRUE for Ok(()). to_json()? returns its Err; the result
\* of the broadcast is logged and Ok(()) is returned whatever it says
process_single_message(json_ok, result) == json_ok

\* process_single_message on the message at the head: to_json, then broadcast,
\* which returns result; an Err is logged and counted, and the for loop goes on
DeliverWith(json_ok, result) ==
    /\ cpc = "deliver"
    /\ process_single_message(json_ok, result) \/ proc_metrics.messages_failed < MaxFailures
    /\ events' = Append(events, [op |-> IF json_ok THEN "broadcast" ELSE "failed",
                                 id |-> Head(messages)])
    /\ IF AfterDeliver(process_single_message(json_ok, result)) = "ack"
       THEN /\ cpc' = "ack"
            /\ UNCHANGED <<messages, batch_count, consecutive_errors, proc_metrics>>
       ELSE LET failed == record_failure(proc_metrics)
            IN IF Tail(messages) = <<>>
               THEN /\ consecutive_errors' = 0
                    /\ proc_metrics' = record_batch(failed, batch_count)
                    /\ cpc' = "read"
                    /\ messages' = <<>>
                    /\ batch_count' = 0
               ELSE /\ messages' = Tail(messages)
                    /\ proc_metrics' = failed
                    /\ cpc' = "deliver"
                    /\ UNCHANGED <<batch_count, consecutive_errors>>
    /\ UNCHANGED <<streamVars, batch_size, restarts>>

\* process_single_message when the broadcast reaches one client and fails for none
Deliver(json_ok) == DeliverWith(json_ok, [successful |-> 1, failed |-> 0])

\* process_single_message with the BroadcastResult its broadcast returned
DeliverResult(json_ok, result) ==
    /\ DeliverWith(json_ok, result)
    /\ last_broadcast' = IF json_ok THEN result ELSE last_broadcast

InitDelivery == last_broadcast = [successful |-> 0, failed |-> 0]

QuietDelivery == InitDelivery

\* RedisConsumer::acknowledge on the message at the head: XACK answers a count, or Err
Ack(xack_ok) ==
    /\ cpc = "ack"
    /\ LET id == Head(messages)
       IN /\ events' = Append(events, [op |-> "ack", id |-> id])
          /\ pel' = IF xack_ok THEN pel \ {id} ELSE pel
    /\ NextMessage(batch_count + 1)
    /\ UNCHANGED <<stream, group_last_delivered, group_created, entries_at_creation,
                   batch_size, restarts>>

\* the process before RedisConsumer::new has run
InitConsumerNew ==
    /\ batch_size \in 1..MaxBatchSize
    /\ cpc = "new"
    /\ messages = <<>>
    /\ batch_count = 0
    /\ consecutive_errors = 0
    /\ proc_metrics = ProcessorMetricsNew
    /\ events = <<>>
    /\ restarts = 0

\* RedisConsumer::new: create_consumer_group; any other Err of XGROUP CREATE is
\* returned and the server does not start
CreateGroup(redis_ok) ==
    /\ cpc = "new"
    /\ IF redis_ok
       THEN LET group == create_consumer_group(group_created,
                             [last_delivered |-> group_last_delivered, pel |-> pel])
            IN /\ group_last_delivered' = group.last_delivered
               /\ pel' = group.pel
               /\ group_created' = TRUE
               /\ entries_at_creation' = IF group_created THEN entries_at_creation
                                         ELSE Len(stream)
               /\ cpc' = "read"
       ELSE /\ cpc' = "stopped"
            /\ UNCHANGED <<group_last_delivered, pel, group_created, entries_at_creation>>
    /\ UNCHANGED <<stream, batch_size, messages, batch_count, consecutive_errors,
                   proc_metrics, events, restarts>>

\* the server process ends wherever it is (a crash, or run returning) and is
\* started again: what it held in memory is gone, the stream and its group stay
Restart ==
    /\ cpc # "new"
    /\ restarts < MaxRestarts
    /\ restarts' = restarts + 1
    /\ cpc' = "new"
    /\ messages' = <<>>
    /\ batch_count' = 0
    /\ consecutive_errors' = 0
    /\ proc_metrics' = ProcessorMetricsNew
    /\ UNCHANGED <<streamVars, batch_size, events>>

(***************************************************************************)
(* ClientManager: the registry of WebSocket clients and the broadcast.     *)
(***************************************************************************)
ClientIds == 1..MaxClients

BroadcastKinds == {"broadcast", "ping_all"}

\* a channel made by mpsc::unbounded_channel in handle_connection
NewChannel == [open |-> TRUE, queued |-> 0]

\* a channel whose sender or receiver was dropped
DroppedChannel == [open |-> FALSE, queued |-> 0]

\* HashMap::insert
insert(cs, id, ch) == [c \in DOMAIN cs \cup {id} |-> IF c = id THEN ch ELSE cs[c]]

\* variant: removing an id that is not registered empties the registry
remove_client_or_clear(cs, id) ==
    IF id \in DOMAIN cs THEN [c \in DOMAIN cs \ {id} |-> cs[c]] ELSE <<>>

\* remove_client: HashMap::remove
remove_client(cs, id) == [c \in DOMAIN cs \ {id} |-> cs[c]]

\* what add_client returns: Ok(()), which carries no count (the count is logged)
add_client_returned(cs) == {}

\* the channels after the senders held by the entries in ids were dropped
DropSenders(chans, cs, ids) ==
    [c \in DOMAIN chans |->
        IF \E id \in ids \cap DOMAIN cs : cs[id] = c THEN DroppedChannel ELSE chans[c]]

InitRegistry ==
    /\ clients = <<>>
    /\ channels = <<>>
    /\ bc_pc = "idle"
    /\ bc_failed = {}
    /\ bc_result = [op |-> "none", successful |-> 0, failed |-> {}]
    /\ bc_disturbed = FALSE
    /\ reg_last = [op |-> "none", id |-> 0, was_present |-> FALSE, returned |-> {}]

\* handle_connection: a channel is made and its sender registered under id
AddClient(id) ==
    /\ Len(channels) < MaxChannels
    /\ LET ch == Len(channels) + 1
       IN /\ channels' = Append(DropSenders(channels, clients, {id}), NewChannel)
          /\ clients' = insert(clients, id, ch)
    /\ reg_last' = [op |-> "add", id |-> id, was_present |-> id \in DOMAIN clients,
                    returned |-> add_client_returned(clients')]
    /\ bc_disturbed' = (bc_disturbed \/ bc_pc = "cleanup")
    /\ UNCHANGED <<bc_pc, bc_failed, bc_result>>

\* remove_client called by handle_connection at disconnect or by cleanup_inactive
RemoveClient(id) ==
    /\ clients' = remove_client(clients, id)
    /\ channels' = DropSenders(channels, clients, DOMAIN clients \ DOMAIN clients')
    /\ reg_last' = [op |-> "remove", id |-> id, was_present |-> id \in DOMAIN clients,
                    returned |-> {}]
    /\ bc_disturbed' = (bc_disturbed \/ bc_pc = "cleanup")
    /\ UNCHANGED <<bc_pc, bc_failed, bc_result>>

\* the receiving half of a client's channel is dropped: its send task ended
ReceiverDropped(ch) ==
    /\ channels[ch].open
    /\ channels' = [channels EXCEPT ![ch] = DroppedChannel]
    /\ UNCHANGED <<clients, bc_pc, bc_failed, bc_result, bc_disturbed, reg_last>>

\* the send task of a connection writes one queued message to its socket
Drain(ch) ==
    /\ channels[ch].open
    /\ channels[ch].queued > 0
    /\ channels' = [channels EXCEPT ![ch].queued = @ - 1]
    /\ UNCHANGED <<clients, bc_pc, bc_failed, bc_result, bc_disturbed, reg_last>>

\* variant: the failed clients are left in the registry
AfterSendAllNoCleanup(failed) == "idle"

\* broadcast / ping_all after the send loop: the cleanup loop has work or not
AfterSendAll(failed) == IF failed = {} THEN "idle" ELSE "cleanup"

\* broadcast / ping_all, the send loop under the read lock: an unbounded send
\* succeeds exactly when the receiving half is still there
BroadcastSend(kind) ==
    /\ bc_pc = "idle"
    /\ \A id \in DOMAIN clients : channels[clients[id]].queued < MaxQueued
    /\ LET failed == {id \in DOMAIN clients : ~channels[clients[id]].open}
           reached == {clients[id] : id \in DOMAIN clients \ failed}
       IN /\ channels' = [c \in DOMAIN channels |->
                             IF c \in reached
                             THEN [channels[c] EXCEPT !.queued = @ + 1]
                             ELSE channels[c]]
          /\ bc_result' = [op |-> kind,
                           successful |-> Cardinality(DOMAIN clients \ failed),
                           failed |-> failed]
          /\ bc_failed' = failed
          /\ bc_pc' = AfterSendAll(failed)
          /\ reg_last' = IF AfterSendAll(failed) = "idle"
                         THEN [op |-> kind, id |-> 0, was_present |-> FALSE, returned |-> {}]
                         ELSE reg_last
    /\ bc_disturbed' = FALSE
    /\ UNCHANGED clients

\* broadcast / ping_all, one turn of the cleanup loop: remove_client of a failed id
BroadcastRemove ==
    /\ bc_pc = "cleanup"
    /\ \E id \in bc_failed :
          /\ clients' = remove_client(clients, id)
          /\ channels' = DropSenders(channels, clients, DOMAIN clients \ DOMAIN clients')
          /\ bc_failed' = bc_failed \ {id}
          /\ bc_pc' = IF bc_failed \ {id} = {} THEN "idle" ELSE "cleanup"
          /\ reg_last' = IF bc_failed \ {id} = {}
                         THEN [op |-> bc_result.op, id |-> 0, was_present |-> FALSE,
                               returned |-> {}]
                         ELSE reg_last
    /\ UNCHANGED <<bc_result, bc_disturbed>>

(***************************************************************************)
(* ClientManager under its lock. The message processor calls broadcast, the *)
(* ping task calls ping_all and cleanup_inactive, the connection handlers    *)
(* call add_client, send_to_client and remove_client. clients               *)
(* is a tokio RwLock: guards are granted first come first served, a read    *)
(* guard while no write guard is held, a write guard while none is held.    *)
(* A guard that is free with nobody waiting is taken without waiting.       *)
(* add_client and remove_client hold their write guard over no await, so    *)
(* the grant, the change and the release are one step. Whether a send finds *)
(* the receiving half of the channel is chosen at the send.                 *)
(***************************************************************************)
MemberIds == 1..MaxMembers

Processor == <<"processor", 0>>
Keeper == <<"ping_task", 0>>
Handler(h) == <<"handler", h>>
Handlers == {Handler(h) : h \in 1..MaxHandlers}
Tasks == {Processor, Keeper} \cup Handlers

ScanOps == {"broadcast", "ping_all", "cleanup_inactive"}
CallOps == {"add_client", "send_to_client", "remove_client"}

\* a task that is in no call of the ClientManager
IdleTask == [op |-> "none", pc |-> "idle", id |-> 0, todo |-> {}, marked |-> {},
             attempts |-> <<>>]

\* a task back from cleanup_inactive holds Ok(inactive_ids); what broadcast and
\* ping_all return is in the registry component
Returned(op, ids) ==
    IF op = "cleanup_inactive" THEN [IdleTask EXCEPT !.op = op, !.marked = ids]
    ELSE IdleTask

\* variant: a client whose last activity is exactly the timeout old is still active
is_active_until(idle_secs, timeout_secs) == idle_secs <= timeout_secs

\* Client::is_active: last_activity.elapsed().as_secs() < timeout_secs
is_active(idle_secs, timeout_secs) == idle_secs < timeout_secs

\* variant: the for loop is left at the first client that is marked
scan_rest_until_marked(todo, id, ok) == IF ok THEN todo \ {id} ELSE {}

\* the for loop over clients.iter(): the clients still to visit after id
scan_rest(todo, id, ok) == todo \ {id}

\* variant: the read guard is kept while the marked clients are removed
drop_never(guards, t) == guards

\* drop(clients): the read guard of task t is released
drop(guards, t) == guards \ {t}

\* one more visit of client id in the record of visits
visit(attempts, id) ==
    [i \in DOMAIN attempts \cup {id} |->
        IF i \in DOMAIN attempts
        THEN IF i = id THEN attempts[i] + 1 ELSE attempts[i]
        ELSE 1]

InitLocks ==
    /\ members = <<>>
    /\ client_timeout_secs \in 0..MaxTimeout
    /\ readers = {}
    /\ waiters = <<>>
    /\ task = [t \in Tasks |-> IdleTask]

QuietLocks ==
    /\ members = <<>>
    /\ client_timeout_secs = 0
    /\ readers = {}
    /\ waiters = <<>>
    /\ task = [t \in Tasks |-> IdleTask]

\* clients.read().await gets its guard at once when no task waits
CanRead == waiters = <<>>

\* clients.write().await gets its guard at once when no task waits or reads
CanWrite == waiters = <<>> /\ readers = {}

\* task t, which is to be in state rec with its read guard, gets it or queues up
AcquireRead(t, rec) ==
    IF CanRead
    THEN /\ readers' = readers \cup {t}
         /\ task' = [task EXCEPT ![t] = rec]
         /\ UNCHANGED waiters
    ELSE /\ waiters' = Append(waiters, t)
         /\ task' = [task EXCEPT ![t] = [rec EXCEPT !.pc = "wait_read"]]
         /\ UNCHANGED readers

\* add_client / remove_client under the write guard: HashMap::insert of a client
\* whose last_activity is now, or HashMap::remove
written(ms, op, id) ==
    IF op = "add_client" THEN insert(ms, id, 0) ELSE remove_client(ms, id)

\* where the task is after its write guard is dropped: a handler's call has
\* returned; a scan call goes to the next marked id or returns
after_write(rec) ==
    IF rec.op \in CallOps THEN IdleTask
    ELSE IF rec.todo \ {rec.id} = {} THEN Returned(rec.op, rec.marked)
    ELSE [rec EXCEPT !.todo = @ \ {rec.id}, !.pc = "prune", !.id = 0]

\* task t, in state rec, asks for the write guard: it writes at once or queues up
AcquireWrite(t, rec) ==
    IF CanWrite
    THEN /\ members' = written(members, rec.op, rec.id)
         /\ task' = [task EXCEPT ![t] = after_write(rec)]
         /\ UNCHANGED waiters
    ELSE /\ waiters' = Append(waiters, t)
         /\ task' = [task EXCEPT ![t] = [rec EXCEPT !.pc = "wait_write"]]
         /\ UNCHANGED members

\* broadcast, ping_all or cleanup_inactive is called: clients.read().await
StartScan(t, op) ==
    /\ task[t].pc = "idle"
    /\ \/ t = Processor /\ op = "broadcast"
       \/ t = Keeper /\ op \in {"ping_all", "cleanup_inactive"}
    /\ AcquireRead(t, [IdleTask EXCEPT !.op = op, !.pc = "scan", !.todo = DOMAIN members])
    /\ UNCHANGED <<members, client_timeout_secs>>

\* a connection handler calls add_client(c, tx), remove_client(c) (write guard)
\* or send_to_client(c, ..) (read guard)
StartCall(t, op, c) ==
    /\ t \in Handlers
    /\ task[t].pc = "idle"
    /\ IF op = "send_to_client"
       THEN /\ AcquireRead(t, [IdleTask EXCEPT !.op = op, !.id = c, !.pc = "held"])
            /\ UNCHANGED members
       ELSE /\ AcquireWrite(t, [IdleTask EXCEPT !.op = op, !.id = c])
            /\ UNCHANGED readers
    /\ UNCHANGED client_timeout_secs

\* the read guard is granted to the task at the head of the queue
GrantRead(t) ==
    /\ task[t].pc = "wait_read"
    /\ waiters # <<>>
    /\ Head(waiters) = t
    /\ waiters' = Tail(waiters)
    /\ readers' = readers \cup {t}
    /\ task' = [task EXCEPT ![t].pc = IF task[t].op \in ScanOps THEN "scan" ELSE "held",
                            ![t].todo = IF task[t].op \in ScanOps THEN DOMAIN members ELSE {}]
    /\ UNCHANGED <<members, client_timeout_secs>>

\* the client the for loop comes to next: clients.iter() goes over the keys in
\* some order, here that of the ids
next_id(todo) == CHOOSE id \in todo : \A other \in todo : id <= other

\* variant: a message that was delivered counts as activity of the client
after_send_refreshed(ms, id, sent) == IF sent THEN [ms EXCEPT ![id] = 0] ELSE ms

\* the registry after client.sender.send(..) in the for loop of broadcast or
\* ping_all: the entry of the client, its last_activity included, is only read
after_send(ms, id, sent) == ms

\* one turn of the for loop of broadcast / ping_all (the send) or of
\* cleanup_inactive (is_active); a failed send or an inactive client is marked
ScanStep(t, sent) ==
    /\ task[t].pc = "scan"
    /\ task[t].todo # {}
    /\ task[t].op = "cleanup_inactive" => sent
    /\ LET id == next_id(task[t].todo)
           ok == IF task[t].op = "cleanup_inactive"
                 THEN is_active(members[id], client_timeout_secs)
                 ELSE sent
       IN task' = [task EXCEPT ![t].todo = scan_rest(@, id, ok),
                               ![t].marked = IF ok THEN @ ELSE @ \cup {id},
                               ![t].attempts = visit(@, id)]
          /\ members' = IF task[t].op = "cleanup_inactive" THEN members
                        ELSE after_send(members, id, sent)
    /\ UNCHANGED <<client_timeout_secs, readers, waiters>>

\* the for loop is over: the read guard is dropped (by drop(clients), or at the
\* return of a broadcast that marked nobody), and the marked clients are next
EndScan(t) ==
    /\ task[t].pc = "scan"
    /\ task[t].todo = {}
    /\ readers' = drop(readers, t)
    /\ task' = [task EXCEPT ![t] =
                   IF task[t].marked = {} THEN Returned(task[t].op, task[t].marked)
                   ELSE [task[t] EXCEPT !.pc = "prune", !.todo = task[t].marked,
                                        !.attempts = <<>>]]
    /\ UNCHANGED <<members, client_timeout_secs, waiters>>

\* the loop over the marked ids calls remove_client(id): clients.write().await
PruneRequest(t) ==
    /\ task[t].pc = "prune"
    /\ AcquireWrite(t, [task[t] EXCEPT !.id = next_id(task[t].todo)])
    /\ UNCHANGED <<client_timeout_secs, readers>>

\* the write guard is granted to the task at the head of the queue, which
\* inserts or removes and drops the guard
GrantWrite(t) ==
    /\ task[t].pc = "wait_write"
    /\ waiters # <<>>
    /\ Head(waiters) = t
    /\ readers = {}
    /\ waiters' = Tail(waiters)
    /\ members' = written(members, task[t].op, task[t].id)
    /\ task' = [task EXCEPT ![t] = after_write(task[t])]
    /\ UNCHANGED <<client_timeout_secs, readers>>

\* send_to_client under its read guard: the send, then update_activity; an
\* unknown id or a failed send is Err(ClientDisconnected)
Send(t, sent) ==
    /\ task[t].pc = "held"
    /\ members' = IF task[t].id \in DOMAIN members /\ sent
                  THEN [members EXCEPT ![task[t].id] = 0]
                  ELSE members
    /\ readers' = drop(readers, t)
    /\ task' = [task EXCEPT ![t] = IdleTask]
    /\ UNCHANGED <<client_timeout_secs, waiters>>

\* a second passes for every client
Second ==
    /\ \E c \in DOMAIN members : members[c] < client_timeout_secs
    /\ members' = [c \in DOMAIN members |-> Min(members[c] + 1, client_timeout_secs)]
    /\ UNCHANGED <<client_timeout_secs, readers, waiters, task>>

(***************************************************************************)
(* A transfer on the wire: Transaction::to_message, the fields written by  *)
(* RedisPublisher::publish_to_stream, StreamMessage::from_redis_stream.    *)
(***************************************************************************)
Pow10(n) == IF n = 0 THEN 1 ELSE IF n = 1 THEN 10 ELSE IF n = 2 THEN 100
            ELSE IF n = 3 THEN 1000 ELSE 10000

RECURSIVE ToDecimal(_)
\* u64::to_string, and {} of an integer: the decimal digits, most significant first
ToDecimal(n) == IF n < 10 THEN <<n>> ELSE Append(ToDecimal(n \div 10), n % 10)

RECURSIVE ParseDecimal(_)
\* str::parse::<u64> of a string of decimal digits
ParseDecimal(digits) ==
    IF digits = <<>> THEN 0
    ELSE 10 * ParseDecimal(SubSeq(digits, 1, Len(digits) - 1)) + digits[Len(digits)]

\* zero-padding on the left to a width
PadLeft(digits, width) ==
    [i \in 1..(IF Len(digits) < width THEN width - Len(digits) ELSE 0) |-> 0] \o digits

\* {:.2} of value / 10^decimals: the hundredths nearest to the quotient; whether
\* a quotient exactly half way is rounded up depends on the f64 nearest to it
Hundredths(value, decimals, tie_up) ==
    LET divisor == Pow10(decimals)
        q == (value * 100) \div divisor
        r == (value * 100) % divisor
    IN IF 2 * r > divisor \/ (2 * r = divisor /\ tie_up) THEN q + 1 ELSE q

\* TokenAmount::format: format!("{:.2}", self.to_human_readable())
format(value, decimals, tie_up) ==
    LET h == Hundredths(value, decimals, tie_up)
    IN [whole |-> ToDecimal(h \div 100), fraction |-> PadLeft(ToDecimal(h % 100), 2)]

Unset == [unset |-> TRUE]

\* Transaction::to_message
to_message(tx, tie_up) ==
    [stablecoin |-> "USDC",
     amount |-> format(tx.value, tx.decimals, tie_up),
     from |-> "0xfrom",
     to |-> "0xto",
     block_number |-> tx.block_number,
     tx_hash |-> "0xhash"]

\* publish_to_stream: the field-value pairs given to XADD
publish_to_stream(msg) ==
    [stablecoin |-> msg.stablecoin,
     amount |-> msg.amount,
     from |-> msg.from,
     to |-> msg.to,
     block_number |-> ToDecimal(msg.block_number),
     tx_hash |-> msg.tx_hash]

\* StreamMessage::from_redis_stream: the TransactionData, or Err when a field is
\* missing
from_redis_stream_fields(entry) ==
    IF {"stablecoin", "amount", "from", "to", "block_number", "tx_hash"} \subseteq DOMAIN entry
    THEN [ok |-> TRUE,
          data |-> [stablecoin |-> entry.stablecoin,
                    amount |-> entry.amount,
                    from |-> entry.from,
                    to |-> entry.to,
                    block_number |-> ParseDecimal(entry.block_number),
                    tx_hash |-> entry.tx_hash]]
    ELSE [ok |-> FALSE]

InitWire ==
    /\ wire_tx \in [value : 0..MaxAmount, decimals : 0..MaxDecimals,
                    block_number : 0..MaxBlockNo]
    /\ wire_msg = Unset
    /\ wire_entry = Unset
    /\ wire_decoded = Unset

QuietWire ==
    /\ wire_tx = [value |-> 0, decimals |-> 0, block_number |-> 0]
    /\ wire_msg = Unset
    /\ wire_entry = Unset
    /\ wire_decoded = Unset

\* RedisPublisher::publish, first half: transaction.to_message()
ToMessage(tie_up) ==
    /\ wire_msg = Unset
    /\ wire_msg' = to_message(wire_tx, tie_up)
    /\ UNCHANGED <<wire_tx, wire_entry, wire_decoded>>

\* RedisPublisher::publish, second half: publish_to_stream(&message)
PublishToStream ==
    /\ wire_msg # Unset
    /\ wire_entry = Unset
    /\ wire_entry' = publish_to_stream(wire_msg)
    /\ UNCHANGED <<wire_tx, wire_msg, wire_decoded>>

\* the consumer decodes the entry it was handed
FromRedisStream ==
    /\ wire_entry # Unset
    /\ wire_decoded = Unset
    /\ wire_decoded' = from_redis_stream_fields(wire_entry)
    /\ UNCHANGED <<wire_tx, wire_msg, wire_entry>>

(***************************************************************************)
(* handle_connection: the life of one accepted WebSocket connection. Every *)
(* connection gets a client id of its own (a fresh UUID), so a connection  *)
(* and its id are the same thing here. The channel of a client has its     *)
(* sending half in the registry and its receiving half in the send task of *)
(* the connection. The lock of the registry is not modelled here: a scan   *)
(* is one step and its deferred removals are a later step.                 *)
(***************************************************************************)
ConnIds == 1..MaxConns

\* the events that end a registration, as the connection meets them
ConnEnds == {"none", "welcome_failed", "disconnect", "send_failed", "evicted"}

\* the first ending event of a connection is kept, later ones do not replace it
first_end(over, e) == IF over = "none" THEN e ELSE over

InitConn ==
    /\ conn_pc = [c \in ConnIds |-> "none"]
    /\ conn_clients = {}
    /\ conn_rx = [c \in ConnIds |-> FALSE]
    /\ conn_marked = {}
    /\ conn_over = [c \in ConnIds |-> "none"]

QuietConn == InitConn

\* handle_connection up to the welcome message: the channel is made and add_client
\* registers its sending half; add_client has no failing path
Accept(c) ==
    /\ conn_pc[c] = "none"
    /\ conn_pc' = [conn_pc EXCEPT ![c] = "welcome"]
    /\ conn_clients' = conn_clients \cup {c}
    /\ conn_rx' = [conn_rx EXCEPT ![c] = TRUE]
    /\ UNCHANGED <<conn_marked, conn_over>>

\* the welcome message goes straight to the socket: when that fails the client is
\* removed and handle_connection returns, otherwise the send task is spawned
Welcome(c, sent) ==
    /\ conn_pc[c] = "welcome"
    /\ IF sent
       THEN /\ conn_pc' = [conn_pc EXCEPT ![c] = "serving"]
            /\ UNCHANGED <<conn_clients, conn_rx, conn_over>>
       ELSE /\ conn_pc' = [conn_pc EXCEPT ![c] = "returned"]
            /\ conn_clients' = conn_clients \ {c}
            /\ conn_rx' = [conn_rx EXCEPT ![c] = FALSE]
            /\ conn_over' = [conn_over EXCEPT ![c] = first_end(@, "welcome_failed")]
    /\ UNCHANGED conn_marked

\* the send task: a failed write to the socket ends it, and the receiving half of
\* the channel goes with it; the receive loop of the connection goes on
SendTaskEnds(c) ==
    /\ conn_pc[c] = "serving"
    /\ conn_rx[c]
    /\ conn_rx' = [conn_rx EXCEPT ![c] = FALSE]
    /\ UNCHANGED <<conn_pc, conn_clients, conn_marked, conn_over>>

\* what send_to_client answers for client c
send_to_client(c) == c \in conn_clients /\ conn_rx[c]

\* handle_client_message on "ping", "stats" or a ping frame: send_to_client; its
\* error is returned to the receive loop, which logs it and reads the next message
ClientMessage(c) ==
    /\ conn_pc[c] = "serving"
    /\ conn_over' = IF c \in conn_clients /\ ~send_to_client(c)
                    THEN [conn_over EXCEPT ![c] = first_end(@, "send_failed")]
                    ELSE conn_over
    /\ UNCHANGED <<conn_pc, conn_clients, conn_rx, conn_marked>>

\* the receive loop ends (the stream is over or gave an error): the send task is
\* aborted, the client is removed and handle_connection returns
Disconnect(c) ==
    /\ conn_pc[c] = "serving"
    /\ conn_pc' = [conn_pc EXCEPT ![c] = "returned"]
    /\ conn_clients' = conn_clients \ {c}
    /\ conn_rx' = [conn_rx EXCEPT ![c] = FALSE]
    /\ conn_over' = [conn_over EXCEPT ![c] = first_end(@, "disconnect")]
    /\ UNCHANGED conn_marked

\* the scan of broadcast or ping_all: the clients whose channel refuses the message
\* are noted for removal
Scan ==
    /\ conn_marked = {}
    /\ conn_marked' = {c \in conn_clients : ~conn_rx[c]}
    /\ conn_over' = [c \in ConnIds |->
                        IF c \in conn_clients /\ ~conn_rx[c]
                        THEN first_end(conn_over[c], "send_failed") ELSE conn_over[c]]
    /\ UNCHANGED <<conn_pc, conn_clients, conn_rx>>

\* the scan of cleanup_inactive: the clients found inactive are noted for removal
Sweep(inactive) ==
    /\ conn_marked = {}
    /\ inactive # {}
    /\ inactive \subseteq conn_clients
    /\ conn_marked' = inactive
    /\ conn_over' = [c \in ConnIds |->
                        IF c \in inactive THEN first_end(conn_over[c], "evicted")
                        ELSE conn_over[c]]
    /\ UNCHANGED <<conn_pc, conn_clients, conn_rx>>

\* the removals that follow a scan: remove_client for every noted id
Prune ==
    /\ conn_marked # {}
    /\ conn_clients' = conn_clients \ conn_marked
    /\ conn_marked' = {}
    /\ UNCHANGED <<conn_pc, conn_rx, conn_over>>

(***************************************************************************)
(* RedisPublisher::connect_with_retry and publish. Delays are in seconds.  *)
(* An attempt is RedisClient::open followed by the connection request;     *)
(* either may fail, and both failures are handled alike.                   *)
(***************************************************************************)
\* variant: the delay doubles without a cap
next_delay_uncapped(d) == d * 2

\* delay = min(delay * 2, 30 s)
next_delay(d) == IF d * 2 < MaxDelaySecs THEN d * 2 ELSE MaxDelaySecs

\* variant: one more attempt is made before giving up
gives_up_late(count, max) == count > max

\* if retry_count >= max_retries { return None; }
gives_up(count, max) == count >= max

InitRetry ==
    /\ max_retries \in 0..MaxRetries
    /\ retry_count = 0
    /\ delay = InitialDelaySecs
    /\ connection = "connecting"
    /\ slept = <<>>
    /\ failed_attempts = 0
    /\ publish_calls = 0
    /\ xadds = 0

QuietRetry ==
    /\ max_retries = 0
    /\ retry_count = 0
    /\ delay = InitialDelaySecs
    /\ connection = "connecting"
    /\ slept = <<>>
    /\ failed_attempts = 0
    /\ publish_calls = 0
    /\ xadds = 0

\* one turn of the loop of connect_with_retry
Attempt(connected) ==
    /\ connection = "connecting"
    /\ IF connected
       THEN /\ connection' = "Some"
            /\ UNCHANGED <<retry_count, delay, slept, failed_attempts>>
       ELSE /\ failed_attempts' = failed_attempts + 1
            /\ IF gives_up(retry_count, max_retries)
               THEN /\ connection' = "None"
                    /\ UNCHANGED <<retry_count, delay, slept>>
               ELSE /\ slept' = Append(slept, delay)
                    /\ retry_count' = retry_count + 1
                    /\ delay' = next_delay(delay)
                    /\ UNCHANGED connection
    /\ UNCHANGED <<max_retries, publish_calls, xadds>>

\* RedisPublisher::publish: with a connection and a serialised transfer it issues
\* one XADD, whose failure is logged; it has no result to return
PublishTransfer(json_ok) ==
    /\ connection \in {"Some", "None"}
    /\ publish_calls < MaxPublishes
    /\ publish_calls' = publish_calls + 1
    /\ xadds' = IF connection = "Some" /\ json_ok THEN xadds + 1 ELSE xadds
    /\ UNCHANGED <<max_retries, retry_count, delay, connection, slept, failed_attempts>>

(***************************************************************************)
(* The specifications: each runs one component and leaves the others be.   *)
(***************************************************************************)
QuietLater == QuietConn /\ QuietRetry /\ QuietHanded /\ QuietDelivery

Init == InitPoller /\ QuietDecoder /\ QuietPublisher /\ InitStream /\ QuietConsumer /\ InitRegistry /\ QuietWire /\ QuietBlock /\ QuietLocks /\ QuietLater

Next ==
    \/ TickFail /\ UNCHANGED <<decoderVars, publisherVars, streamVars, consumerVars, registryVars, wireVars, blockVars, lockVars, connVars, retryVars, handedVars, deliveryVars>>
    \/ (\E h \in 0..MaxHeight : TickOk(h)) /\ UNCHANGED <<decoderVars, publisherVars, streamVars, consumerVars, registryVars, wireVars, blockVars, lockVars, connVars, retryVars, handedVars, deliveryVars>>
    \/ (\E res \in FetchResults : ProcessBlock(res)) /\ UNCHANGED <<decoderVars, publisherVars, streamVars, consumerVars, registryVars, wireVars, blockVars, lockVars, connVars, retryVars, handedVars, deliveryVars>>
    \/ Shutdown /\ UNCHANGED <<decoderVars, publisherVars, streamVars, consumerVars, registryVars, wireVars, blockVars, lockVars, connVars, retryVars, handedVars, deliveryVars>>

Spec == Init /\ [][Next]_vars

(***************************************************************************)
(* The poller on a quiet chain: the height stays where it is, every block  *)
(* is fetched and its logs decode (to a transfer or to "not a transfer"),  *)
(* and the timer keeps ticking.                                            *)
(***************************************************************************)
SteadyResults == {res \in FetchResults : res.ok /\ Range(res.logs) \subseteq {GoodLog, ForeignLog}}

TickSteady == TickOk(chainHeight) /\ UNCHANGED <<decoderVars, publisherVars, streamVars, consumerVars, registryVars, wireVars, blockVars, lockVars, connVars, retryVars, handedVars, deliveryVars>>

ProcessSteady ==
    (\E res \in SteadyResults : ProcessBlock(res)) /\ UNCHANGED <<decoderVars, publisherVars, streamVars, consumerVars, registryVars, wireVars, blockVars, lockVars, connVars, retryVars, handedVars, deliveryVars>>

NextSteady == TickSteady \/ ProcessSteady

SpecSteady == Init /\ [][NextSteady]_vars /\ WF_vars(NextSteady)

\* the poller at rest, for the specifications of the other components
\* the answers of the endpoint in which the timestamp of a block, when asked for,
\* is given: process_single_block goes the same way without it
StampedResults == {res \in FetchResults : res.ts \in {"unasked", "some"}}

\* the poller with a shutdown signal that may arrive at any moment
NextShutdown ==
    \/ TickFail /\ UNCHANGED <<decoderVars, publisherVars, streamVars, consumerVars, registryVars, wireVars, blockVars, lockVars, connVars, retryVars, handedVars, deliveryVars>>
    \/ (\E h \in 0..MaxHeight : TickOk(h)) /\ UNCHANGED <<decoderVars, publisherVars, streamVars, consumerVars, registryVars, wireVars, blockVars, lockVars, connVars, retryVars, handedVars, deliveryVars>>
    \/ (\E res \in StampedResults : ProcessBlock(res)) /\ UNCHANGED <<decoderVars, publisherVars, streamVars, consumerVars, registryVars, wireVars, blockVars, lockVars, connVars, retryVars, handedVars, deliveryVars>>
    \/ Shutdown /\ UNCHANGED <<decoderVars, publisherVars, streamVars, consumerVars, registryVars, wireVars, blockVars, lockVars, connVars, retryVars, handedVars, deliveryVars>>
    \/ Signal /\ UNCHANGED <<decoderVars, publisherVars, streamVars, consumerVars, registryVars, wireVars, blockVars, lockVars, connVars, retryVars, handedVars, deliveryVars>>
    \/ Break /\ UNCHANGED <<decoderVars, publisherVars, streamVars, consumerVars, registryVars, wireVars, blockVars, lockVars, connVars, retryVars, handedVars, deliveryVars>>
    \/ SignalLost /\ UNCHANGED <<decoderVars, publisherVars, streamVars, consumerVars, registryVars, wireVars, blockVars, lockVars, connVars, retryVars, handedVars, deliveryVars>>

SpecShutdown == Init /\ [][NextShutdown]_vars

QuietPoller ==
    /\ InitPoller
    /\ start_block = None
    /\ blocks_per_batch = 1
    /\ chainHeight = 0

InitDecoderSpec ==
    QuietPoller /\ InitDecoder /\ QuietPublisher /\ InitStream /\ QuietConsumer /\ InitRegistry /\ QuietWire /\ QuietBlock /\ QuietLocks /\ QuietLater

NextDecoder == Parse /\ UNCHANGED <<pollerVars, publisherVars, streamVars, consumerVars, registryVars, wireVars, blockVars, lockVars, connVars, retryVars, handedVars, deliveryVars>>

SpecDecoder == InitDecoderSpec /\ [][NextDecoder]_vars

InitPublisherSpec ==
    QuietPoller /\ QuietDecoder /\ InitPublisher /\ InitStream /\ QuietConsumer /\ InitRegistry /\ QuietWire /\ QuietBlock /\ QuietLocks /\ QuietLater

NextPublisher ==
    \/ PublishAllBegin /\ UNCHANGED <<pollerVars, decoderVars, streamVars, consumerVars, registryVars, wireVars, blockVars, lockVars, connVars, retryVars, handedVars, deliveryVars>>
    \/ (\E answer \in SinkAnswers : PublishStep(answer)) /\ UNCHANGED <<pollerVars, decoderVars, streamVars, consumerVars, registryVars, wireVars, blockVars, lockVars, connVars, retryVars, handedVars, deliveryVars>>

SpecPublisher == InitPublisherSpec /\ [][NextPublisher]_vars

InitConsumerSpec ==
    QuietPoller /\ QuietDecoder /\ QuietPublisher /\ InitStream /\ InitConsumer /\ InitRegistry /\ QuietWire /\ QuietBlock /\ QuietLocks /\ QuietLater

NextConsumer ==
    \/ (\E entry \in EntryFormats : XAdd(entry)) /\ UNCHANGED <<pollerVars, decoderVars, publisherVars, registryVars, wireVars, blockVars, lockVars, connVars, retryVars, handedVars, deliveryVars>>
    \/ ReadOk /\ UNCHANGED <<pollerVars, decoderVars, publisherVars, registryVars, wireVars, blockVars, lockVars, connVars, retryVars, handedVars, deliveryVars>>
    \/ ReadFail /\ UNCHANGED <<pollerVars, decoderVars, publisherVars, registryVars, wireVars, blockVars, lockVars, connVars, retryVars, handedVars, deliveryVars>>
    \/ (\E json_ok \in BOOLEAN : Deliver(json_ok)) /\ UNCHANGED <<pollerVars, decoderVars, publisherVars, registryVars, wireVars, blockVars, lockVars, connVars, retryVars, handedVars, deliveryVars>>
    \/ (\E xack_ok \in BOOLEAN : Ack(xack_ok)) /\ UNCHANGED <<pollerVars, decoderVars, publisherVars, registryVars, wireVars, blockVars, lockVars, connVars, retryVars, handedVars, deliveryVars>>

SpecConsumer == InitConsumerSpec /\ [][NextConsumer]_vars

\* the consumer group over restarts of the server, with reads that are answered
InitGroupSpec ==
    QuietPoller /\ QuietDecoder /\ QuietPublisher /\ InitStreamNoGroup /\ InitConsumerNew /\ InitRegistry /\ QuietWire /\ QuietBlock /\ QuietLocks /\ QuietLater

\* the steps of the consumer when Redis answers and nothing fails
ConsumerStep ==
    /\ \/ CreateGroup(TRUE)
       \/ ReadOk
       \/ Deliver(TRUE)
       \/ Ack(TRUE)
    /\ UNCHANGED <<pollerVars, decoderVars, publisherVars, registryVars, wireVars, blockVars, lockVars, connVars, retryVars, handedVars, deliveryVars>>

NextGroup ==
    \/ (\E entry \in EntryFormats : XAdd(entry)) /\ UNCHANGED <<pollerVars, decoderVars, publisherVars, registryVars, wireVars, blockVars, lockVars, connVars, retryVars, handedVars, deliveryVars>>
    \/ (\E redis_ok \in BOOLEAN : CreateGroup(redis_ok)) /\ UNCHANGED <<pollerVars, decoderVars, publisherVars, registryVars, wireVars, blockVars, lockVars, connVars, retryVars, handedVars, deliveryVars>>
    \/ Restart /\ UNCHANGED <<pollerVars, decoderVars, publisherVars, registryVars, wireVars, blockVars, lockVars, connVars, retryVars, handedVars, deliveryVars>>
    \/ ReadOk /\ UNCHANGED <<pollerVars, decoderVars, publisherVars, registryVars, wireVars, blockVars, lockVars, connVars, retryVars, handedVars, deliveryVars>>
    \/ (\E json_ok \in BOOLEAN : Deliver(json_ok)) /\ UNCHANGED <<pollerVars, decoderVars, publisherVars, registryVars, wireVars, blockVars, lockVars, connVars, retryVars, handedVars, deliveryVars>>
    \/ (\E xack_ok \in BOOLEAN : Ack(xack_ok)) /\ UNCHANGED <<pollerVars, decoderVars, publisherVars, registryVars, wireVars, blockVars, lockVars, connVars, retryVars, handedVars, deliveryVars>>

SpecGroup == InitGroupSpec /\ [][NextGroup]_vars

\* the consumer task is scheduled as long as it has a step to take
SpecGroupFair == SpecGroup /\ WF_vars(ConsumerStep)

InitRegistrySpec ==
    QuietPoller /\ QuietDecoder /\ QuietPublisher /\ InitStream /\ QuietConsumer /\ InitRegistry /\ QuietWire /\ QuietBlock /\ QuietLocks /\ QuietLater

NextRegistry ==
    \/ (\E id \in ClientIds : AddClient(id)) /\ UNCHANGED <<pollerVars, decoderVars, publisherVars, streamVars, consumerVars, wireVars, blockVars, lockVars, connVars, retryVars, handedVars, deliveryVars>>
    \/ (\E id \in ClientIds : RemoveClient(id)) /\ UNCHANGED <<pollerVars, decoderVars, publisherVars, streamVars, consumerVars, wireVars, blockVars, lockVars, connVars, retryVars, handedVars, deliveryVars>>
    \/ (\E ch \in DOMAIN channels : ReceiverDropped(ch)) /\ UNCHANGED <<pollerVars, decoderVars, publisherVars, streamVars, consumerVars, wireVars, blockVars, lockVars, connVars, retryVars, handedVars, deliveryVars>>
    \/ (\E ch \in DOMAIN channels : Drain(ch)) /\ UNCHANGED <<pollerVars, decoderVars, publisherVars, streamVars, consumerVars, wireVars, blockVars, lockVars, connVars, retryVars, handedVars, deliveryVars>>
    \/ (\E kind \in BroadcastKinds : BroadcastSend(kind)) /\ UNCHANGED <<pollerVars, decoderVars, publisherVars, streamVars, consumerVars, wireVars, blockVars, lockVars, connVars, retryVars, handedVars, deliveryVars>>
    \/ BroadcastRemove /\ UNCHANGED <<pollerVars, decoderVars, publisherVars, streamVars, consumerVars, wireVars, blockVars, lockVars, connVars, retryVars, handedVars, deliveryVars>>

SpecRegistry == InitRegistrySpec /\ [][NextRegistry]_vars

InitWireSpec ==
    QuietPoller /\ QuietDecoder /\ QuietPublisher /\ InitStream /\ QuietConsumer /\ InitRegistry
    /\ InitWire /\ QuietBlock /\ QuietLocks /\ QuietLater

NextWire ==
    \/ (\E tie_up \in BOOLEAN : ToMessage(tie_up)) /\ UNCHANGED <<pollerVars, decoderVars, publisherVars, streamVars, consumerVars, registryVars, blockVars, lockVars, connVars, retryVars, handedVars, deliveryVars>>
    \/ PublishToStream /\ UNCHANGED <<pollerVars, decoderVars, publisherVars, streamVars, consumerVars, registryVars, blockVars, lockVars, connVars, retryVars, handedVars, deliveryVars>>
    \/ FromRedisStream /\ UNCHANGED <<pollerVars, decoderVars, publisherVars, streamVars, consumerVars, registryVars, blockVars, lockVars, connVars, retryVars, handedVars, deliveryVars>>

SpecWire == InitWireSpec /\ [][NextWire]_vars

NextNoGroup ==
    \/ ((\E e \in EntryFormats : XAdd(e)) /\ UNCHANGED <<pollerVars, decoderVars, publisherVars, registryVars, wireVars, blockVars, lockVars, connVars, retryVars, handedVars, deliveryVars>>)
    \/ (DestroyGroup /\ UNCHANGED <<pollerVars, decoderVars, publisherVars, registryVars, wireVars, blockVars, lockVars, connVars, retryVars, handedVars, deliveryVars>>)
    \/ (ReadOk /\ UNCHANGED <<pollerVars, decoderVars, publisherVars, registryVars, wireVars, blockVars, lockVars, connVars, retryVars, handedVars, deliveryVars>>)
    \/ ((\E ok \in BOOLEAN : ReadNoGroup(ok)) /\ UNCHANGED <<pollerVars, decoderVars, publisherVars, registryVars, wireVars, blockVars, lockVars, connVars, retryVars, handedVars, deliveryVars>>)
    \/ ((\E ok \in BOOLEAN : Deliver(ok)) /\ UNCHANGED <<pollerVars, decoderVars, publisherVars, registryVars, wireVars, blockVars, lockVars, connVars, retryVars, handedVars, deliveryVars>>)
    \/ ((\E ok \in BOOLEAN : Ack(ok)) /\ UNCHANGED <<pollerVars, decoderVars, publisherVars, registryVars, wireVars, blockVars, lockVars, connVars, retryVars, handedVars, deliveryVars>>)

SpecNoGroup == InitConsumerSpec /\ [][NextNoGroup]_vars

InitBlockSpec ==
    QuietPoller /\ QuietDecoder /\ QuietPublisher /\ InitStream /\ QuietConsumer /\ InitRegistry
    /\ QuietWire /\ InitBlock /\ QuietLocks /\ QuietLater

NextBlock ==
    ProcessSingleBlock /\ UNCHANGED <<pollerVars, decoderVars, publisherVars, streamVars, consumerVars, registryVars, wireVars, lockVars, connVars, retryVars, handedVars, deliveryVars>>

SpecBlock == InitBlockSpec /\ [][NextBlock]_vars

InitLocksSpec ==
    QuietPoller /\ QuietDecoder /\ QuietPublisher /\ InitStream /\ QuietConsumer /\ InitRegistry
    /\ QuietWire /\ QuietBlock /\ InitLocks /\ QuietLater

\* the steps of task t inside a call it has begun
LockStep(t) ==
    /\ \/ GrantRead(t)
       \/ \E sent \in BOOLEAN : ScanStep(t, sent)
       \/ EndScan(t)
       \/ PruneRequest(t)
       \/ GrantWrite(t)
       \/ \E sent \in BOOLEAN : Send(t, sent)
    /\ UNCHANGED <<pollerVars, decoderVars, publisherVars, streamVars, consumerVars, registryVars, wireVars, blockVars, connVars, retryVars, handedVars, deliveryVars>>

\* the message processor broadcasts while handlers call
NextBroadcast ==
    \/ (StartScan(Processor, "broadcast") /\ UNCHANGED <<pollerVars, decoderVars, publisherVars, streamVars, consumerVars, registryVars, wireVars, blockVars, connVars, retryVars, handedVars, deliveryVars>>)
    \/ ((\E t \in Handlers, op \in CallOps, c \in MemberIds : StartCall(t, op, c)) /\ UNCHANGED <<pollerVars, decoderVars, publisherVars, streamVars, consumerVars, registryVars, wireVars, blockVars, connVars, retryVars, handedVars, deliveryVars>>)
    \/ (\E t \in Tasks : LockStep(t))

SpecBroadcast == InitLocksSpec /\ [][NextBroadcast]_vars

\* the ping task cleans up while a handler calls and time passes
NextCleanup ==
    \/ (StartScan(Keeper, "cleanup_inactive") /\ UNCHANGED <<pollerVars, decoderVars, publisherVars, streamVars, consumerVars, registryVars, wireVars, blockVars, connVars, retryVars, handedVars, deliveryVars>>)
    \/ ((\E op \in CallOps, c \in MemberIds : StartCall(Handler(1), op, c)) /\ UNCHANGED <<pollerVars, decoderVars, publisherVars, streamVars, consumerVars, registryVars, wireVars, blockVars, connVars, retryVars, handedVars, deliveryVars>>)
    \/ (Second /\ UNCHANGED <<pollerVars, decoderVars, publisherVars, streamVars, consumerVars, registryVars, wireVars, blockVars, connVars, retryVars, handedVars, deliveryVars>>)
    \/ (\E t \in Tasks : LockStep(t))

SpecCleanup == InitLocksSpec /\ [][NextCleanup]_vars

\* a registry of clients that connected or were last sent to some seconds ago
InitActivity ==
    /\ client_timeout_secs \in 0..MaxTimeout
    /\ members \in [MemberIds -> 0..client_timeout_secs]
    /\ readers = {}
    /\ waiters = <<>>
    /\ task = [t \in Tasks |-> IdleTask]

InitActivitySpec ==
    QuietPoller /\ QuietDecoder /\ QuietPublisher /\ InitStream /\ QuietConsumer /\ InitRegistry
    /\ QuietWire /\ QuietBlock /\ InitActivity /\ QuietLater

\* broadcasts, probes and sweeps run while time passes and a handler sends to
\* clients
NextActivity ==
    \/ ((\E t \in Tasks, op \in ScanOps : StartScan(t, op)) /\ UNCHANGED <<pollerVars, decoderVars, publisherVars, streamVars, consumerVars, registryVars, wireVars, blockVars, connVars, retryVars, handedVars, deliveryVars>>)
    \/ ((\E c \in MemberIds : StartCall(Handler(1), "send_to_client", c)) /\ UNCHANGED <<pollerVars, decoderVars, publisherVars, streamVars, consumerVars, registryVars, wireVars, blockVars, connVars, retryVars, handedVars, deliveryVars>>)
    \/ (Second /\ UNCHANGED <<pollerVars, decoderVars, publisherVars, streamVars, consumerVars, registryVars, wireVars, blockVars, connVars, retryVars, handedVars, deliveryVars>>)
    \/ (\E t \in Tasks : LockStep(t))

SpecActivity == InitActivitySpec /\ [][NextActivity]_vars

\* all the callers, with the clock standing still: cleanup_inactive finds every
\* client inactive when client_timeout_secs is 0, and none otherwise
NextCalls ==
    \/ ((\E t \in Tasks, op \in ScanOps : StartScan(t, op)) /\ UNCHANGED <<pollerVars, decoderVars, publisherVars, streamVars, consumerVars, registryVars, wireVars, blockVars, connVars, retryVars, handedVars, deliveryVars>>)
    \/ ((\E t \in Handlers, op \in CallOps, c \in MemberIds : StartCall(t, op, c)) /\ UNCHANGED <<pollerVars, decoderVars, publisherVars, streamVars, consumerVars, registryVars, wireVars, blockVars, connVars, retryVars, handedVars, deliveryVars>>)
    \/ (\E t \in Tasks : LockStep(t))

\* a task that is ready to go on is polled again, and a guard that can be
\* granted to the head of the queue is granted
SpecLocksFair ==
    InitLocksSpec /\ [][NextCalls]_vars /\ \A t \in Tasks : WF_vars(LockStep(t))

\* the poller, with what it hands to publish_all kept track of
NextHanded ==
    \/ TickFail /\ UNCHANGED handedVars /\ UNCHANGED <<decoderVars, publisherVars, streamVars, consumerVars, registryVars, wireVars, blockVars, lockVars, connVars, retryVars, deliveryVars>>
    \/ (\E h \in 0..MaxHeight : TickOk(h)) /\ UNCHANGED handedVars /\ UNCHANGED <<decoderVars, publisherVars, streamVars, consumerVars, registryVars, wireVars, blockVars, lockVars, connVars, retryVars, deliveryVars>>
    \/ (\E res \in StampedResults : ProcessHanded(res)) /\ UNCHANGED <<decoderVars, publisherVars, streamVars, consumerVars, registryVars, wireVars, blockVars, lockVars, connVars, retryVars, deliveryVars>>
    \/ Shutdown /\ UNCHANGED handedVars /\ UNCHANGED <<decoderVars, publisherVars, streamVars, consumerVars, registryVars, wireVars, blockVars, lockVars, connVars, retryVars, deliveryVars>>

SpecHanded == Init /\ [][NextHanded]_vars

\* the message processor with every read answered, and the result of every
\* broadcast kept track of
NextDelivery ==
    \/ (\E entry \in EntryFormats : XAdd(entry)) /\ UNCHANGED deliveryVars /\ UNCHANGED <<pollerVars, decoderVars, publisherVars, registryVars, wireVars, blockVars, lockVars, connVars, retryVars, handedVars>>
    \/ ReadOk /\ UNCHANGED deliveryVars /\ UNCHANGED <<pollerVars, decoderVars, publisherVars, registryVars, wireVars, blockVars, lockVars, connVars, retryVars, handedVars>>
    \/ (\E json_ok \in BOOLEAN, result \in BroadcastResults : DeliverResult(json_ok, result)) /\ UNCHANGED <<pollerVars, decoderVars, publisherVars, registryVars, wireVars, blockVars, lockVars, connVars, retryVars, handedVars>>
    \/ (\E xack_ok \in BOOLEAN : Ack(xack_ok)) /\ UNCHANGED deliveryVars /\ UNCHANGED <<pollerVars, decoderVars, publisherVars, registryVars, wireVars, blockVars, lockVars, connVars, retryVars, handedVars>>

SpecDelivery == InitConsumerSpec /\ [][NextDelivery]_vars

InitConnSpec ==
    /\ QuietPoller /\ QuietDecoder /\ QuietPublisher /\ InitStream /\ QuietConsumer /\ InitRegistry
    /\ QuietWire /\ QuietBlock /\ QuietLocks /\ InitConn /\ QuietRetry /\ QuietHanded /\ QuietDelivery

\* connections come and go while broadcasts, probes and sweeps run
NextConn ==
    \/ (\E c \in ConnIds : Accept(c)) /\ UNCHANGED <<pollerVars, decoderVars, publisherVars, streamVars, consumerVars, registryVars, wireVars, blockVars, lockVars, retryVars, handedVars, deliveryVars>>
    \/ (\E c \in ConnIds, sent \in BOOLEAN : Welcome(c, sent)) /\ UNCHANGED <<pollerVars, decoderVars, publisherVars, streamVars, consumerVars, registryVars, wireVars, blockVars, lockVars, retryVars, handedVars, deliveryVars>>
    \/ (\E c \in ConnIds : SendTaskEnds(c)) /\ UNCHANGED <<pollerVars, decoderVars, publisherVars, streamVars, consumerVars, registryVars, wireVars, blockVars, lockVars, retryVars, handedVars, deliveryVars>>
    \/ (\E c \in ConnIds : ClientMessage(c)) /\ UNCHANGED <<pollerVars, decoderVars, publisherVars, streamVars, consumerVars, registryVars, wireVars, blockVars, lockVars, retryVars, handedVars, deliveryVars>>
    \/ (\E c \in ConnIds : Disconnect(c)) /\ UNCHANGED <<pollerVars, decoderVars, publisherVars, streamVars, consumerVars, registryVars, wireVars, blockVars, lockVars, retryVars, handedVars, deliveryVars>>
    \/ Scan /\ UNCHANGED <<pollerVars, decoderVars, publisherVars, streamVars, consumerVars, registryVars, wireVars, blockVars, lockVars, retryVars, handedVars, deliveryVars>>
    \/ (\E inactive \in SUBSET ConnIds : Sweep(inactive)) /\ UNCHANGED <<pollerVars, decoderVars, publisherVars, streamVars, consumerVars, registryVars, wireVars, blockVars, lockVars, retryVars, handedVars, deliveryVars>>
    \/ Prune /\ UNCHANGED <<pollerVars, decoderVars, publisherVars, streamVars, consumerVars, registryVars, wireVars, blockVars, lockVars, retryVars, handedVars, deliveryVars>>

SpecConn == InitConnSpec /\ [][NextConn]_vars

InitRetrySpec ==
    /\ QuietPoller /\ QuietDecoder /\ QuietPublisher /\ InitStream /\ QuietConsumer /\ InitRegistry
    /\ QuietWire /\ QuietBlock /\ QuietLocks /\ QuietConn /\ InitRetry /\ QuietHanded /\ QuietDelivery

\* one step of connect_with_retry
ConnectStep == (\E connected \in BOOLEAN : Attempt(connected)) /\ UNCHANGED <<pollerVars, decoderVars, publisherVars, streamVars, consumerVars, registryVars, wireVars, blockVars, lockVars, connVars, handedVars, deliveryVars>>

NextRetry ==
    \/ ConnectStep
    \/ (\E json_ok \in BOOLEAN : PublishTransfer(json_ok)) /\ UNCHANGED <<pollerVars, decoderVars, publisherVars, streamVars, consumerVars, registryVars, wireVars, blockVars, lockVars, connVars, handedVars, deliveryVars>>

SpecRetry == InitRetrySpec /\ [][NextRetry]_vars

\* every attempt to connect comes to an answer
SpecRetryFair == SpecRetry /\ WF_vars(ConnectStep)

(***************************************************************************)
(* Claims about the poller.                                                *)
(***************************************************************************)
IsTick == \E h \in 0..MaxHeight : TickOk(h)

LastOf(s) == s[Len(s)]

AttemptedBlocks == [i \in 1..Len(tickAttempts) |-> tickAttempts[i].block]

\* C1: once a catch-up over [s,e] has completed, last_processed_block equals e,
\* whatever blocks of the range failed (the last one included).
C1_CursorAtRangeEnd ==
    (pc = "Idle" /\ rangeOf # <<>>) => last_processed_block = LastOf(rangeOf)

\* C2: over any sequence of ticks, with any mix of failed blocks and any sequence
\* of reported heights, last_processed_block never decreases (and, once set, is
\* never unset).
C2_CursorNeverDecreases ==
    [][/\ last_processed_block' >= last_processed_block
       /\ (last_processed_block # None => last_processed_block' # None)]_vars

\* block 2 was processed, a block failed, and the endpoint now reports height 1
C2_Witness ==
    /\ Len(processed) >= 2
    /\ last_processed_block >= 2
    /\ chainHeight = 1
    /\ metrics.errors_count > 0

\* C3: with cursor Some(L) and batch size B >= 1, a tick told height H gets
\* exactly the blocks L+1 .. min(H, L+B) in ascending order, hence at most B of
\* them, and none when H <= L: then it fetches no block and leaves the cursor.
C3_RangeOfTick ==
    [][(IsTick /\ last_processed_block # None) =>
          LET L == last_processed_block
              H == chainHeight'
          IN /\ rangeOf' = Consecutive(L + 1, Min(H, L + blocks_per_batch))
             /\ Len(rangeOf') <= blocks_per_batch
             /\ blocks_to_process' = rangeOf'
             /\ (H <= L => /\ rangeOf' = <<>>
                           /\ pc' = "Idle"
                           /\ last_processed_block' = L)]_vars

C3_Witness ==
    /\ pc = "CatchingUp"
    /\ tickAttempts = <<>>
    /\ Len(rangeOf) = 2
    /\ last_processed_block = 0
    /\ chainHeight = MaxHeight

C5_FirstTickProcessesNothing ==
    [][(IsTick /\ last_processed_block = None) =>
          (rangeOf' = <<>> /\ last_processed_block' = chainHeight')]_vars

\* C5 as amended: a tick with an unset cursor (no start block configured) leaves
\* the cursor unset and takes the range [H], H being the height it observes: the
\* first block processed is H itself, and the cursor is first set, to H, when a
\* block H has been processed successfully. With a start block S the cursor is S
\* from construction and the first range starts at S+1.
C5_FirstTickProcessesHead ==
    /\ [][(IsTick /\ last_processed_block = None) =>
             (rangeOf' = <<chainHeight'>> /\ last_processed_block' = None)]_vars
    /\ [][(last_processed_block = None /\ last_processed_block' # None) =>
             (last_processed_block' = chainHeight /\ processed' = <<chainHeight>>)]_vars
    /\ [](start_block = None /\ processed # <<>> => last_processed_block # None)
    /\ [][(IsTick /\ start_block # None /\ processed = <<>> /\ rangeOf' # <<>>) =>
             (last_processed_block = start_block /\ rangeOf'[1] = start_block + 1)]_vars

C5_Witness ==
    /\ start_block = None
    /\ processed = <<chainHeight>>
    /\ last_processed_block = chainHeight
    /\ metrics.errors_count > 0

\* C6: a tick whose height call fails does not stop the poller: run does not
\* return, the poller is Idle again with cursor and counters as they were.
C6_FailedTickKeepsPolling == pc # "Failed"

\* C7: within one range a failing block adds exactly one to errors_count and the
\* batch goes on: every later block of the range is still handled, so that when
\* the poller is Idle again the blocks it handled are the whole range.
C7_FailedBlockDoesNotAbort ==
    /\ [][(pc = "CatchingUp" /\ Len(tickAttempts') > Len(tickAttempts)
             /\ ~LastOf(tickAttempts').ok) =>
             /\ metrics'.errors_count = metrics.errors_count + 1
             /\ blocks_to_process' = Tail(blocks_to_process)
             /\ (Tail(blocks_to_process) # <<>> => pc' = "CatchingUp")]_vars
    /\ [](pc = "Idle" => AttemptedBlocks = rangeOf)
    /\ [](AttemptedBlocks \o blocks_to_process = rangeOf)

C7_Witness ==
    /\ pc = "Idle"
    /\ Len(tickAttempts) = 2
    /\ ~tickAttempts[1].ok
    /\ tickAttempts[2].ok
    /\ tickAttempts[2].sent > 0

(***************************************************************************)
(* Claims about the decoder.                                               *)
(***************************************************************************)
Malformed(l) ==
    \/ Len(l.topics) < MinTopics
    \/ l.topics[1] # TransferSig
    \/ l.datalen < MinDataLen

\* C8: parse_transfer_log returns "not a transfer" (Ok(None)), never an error,
\* for any log with fewer than 3 topics, another topic0 than the Transfer
\* signature, or fewer than 32 bytes of data.
C8_MalformedIsNotATransfer ==
    (parse_result # Unparsed /\ Malformed(decoder_log)) => parse_result = ParseNone

(***************************************************************************)
(* Claims about the publisher.                                             *)
(***************************************************************************)
\* C9: publish_all calls every sink exactly once, in list order, whatever sinks
\* fail, and returns normally: while it runs the calls made are those of sinks
\* 1..pub_idx-1 in order, when it has returned they are those of all the sinks,
\* and it never ends by raising.
C9_EverySinkOnceInOrder ==
    /\ pub_pc # "raised"
    /\ pub_pc = "loop" =>
          /\ pub_idx \in 1..Len(publishers)
          /\ [i \in 1..Len(sink_calls) |-> sink_calls[i].sink] = Consecutive(1, pub_idx - 1)
    /\ pub_pc = "returned" =>
          [i \in 1..Len(sink_calls) |-> sink_calls[i].sink] = Consecutive(1, Len(publishers))

\* three sinks, the second failed, the first and the third were still called
C9_Witness ==
    /\ pub_pc = "returned"
    /\ publishers = <<"Log", "Redis", "WebSocket">>
    /\ Len(sink_calls) = 3
    /\ sink_calls[1].ok
    /\ ~sink_calls[2].ok
    /\ sink_calls[3].ok

\* C23: no block number is attempted by more than one tick: a block that failed
\* during a catch-up is not in the range of a later tick, wherever in its range
\* it was (the last block included).
C23_NoBlockAttemptedTwice ==
    [][IsTick => Range(rangeOf') \cap Range(AttemptedBlocks) = {}]_vars

\* C24: a log-fetch error carrying the provider's malformed-block-data mark is
\* treated as zero logs: the block counts as processed with 0 transfers,
\* errors_count is not incremented and the batch goes on.
C24_MalformedBlockDataIsZeroLogs ==
    [][ProcessBlock(MalformedBlockData) =>
          /\ metrics'.errors_count = metrics.errors_count
          /\ metrics'.blocks_processed = metrics.blocks_processed + 1
          /\ metrics'.transactions_found = metrics.transactions_found
          /\ last_processed_block' = Head(blocks_to_process)]_vars

(***************************************************************************)
(* Claims about the processing of one block.                               *)
(***************************************************************************)
\* the logs of the block that decode to a transfer
DecodableLogs(logs) == {i \in 1..Len(logs) : parse_transfer_log(logs[i]).kind = "Some"}

\* C25: within one block a log that cannot be decoded does not stop the
\* remaining logs: every decodable Transfer log of the block is still handed
\* to the sinks.
C25_BadLogDoesNotHaltBlock ==
    (blk_out # [unset |-> TRUE] /\ blk_in.res.ok) =>
        {blk_out.sent[i].log : i \in 1..Len(blk_out.sent)} = DecodableLogs(blk_in.res.logs)

\* C26: a failed timestamp fetch never fails the block: its transfers are
\* decoded and published as with a timestamp, only without the timestamp field.
C26_TimestampIsBestEffort ==
    (blk_out # [unset |-> TRUE] /\ blk_in.res.ok /\ blk_in.res.ts = "err") =>
        LET with == process_single_block(blk_in.block, [blk_in.res EXCEPT !.ts = "some"])
        IN /\ blk_out.ok = with.ok
           /\ blk_out.count = with.count
           /\ Len(blk_out.sent) = Len(with.sent)
           /\ \A i \in 1..Len(blk_out.sent) :
                 /\ ~blk_out.sent[i].with_ts
                 /\ blk_out.sent[i].log = with.sent[i].log
           /\ (\A i \in 1..Len(blk_in.res.logs) :
                  parse_transfer_log(blk_in.res.logs[i]).kind # "Err") =>
                 /\ blk_out.ok
                 /\ blk_out.count = Cardinality(DecodableLogs(blk_in.res.logs))

\* a block of two transfers whose timestamp fetch failed: both were published
C26_Witness ==
    /\ blk_out # [unset |-> TRUE]
    /\ blk_in.res.ts = "err"
    /\ blk_out.ok
    /\ blk_out.count = 2
    /\ Len(blk_out.sent) = 2

(***************************************************************************)
(* Claims about the stream consumer.                                       *)
(***************************************************************************)
\* C10: an entry's acknowledge call comes only after the broadcast of that same
\* entry has returned, entries are handled one at a time in batch order, and an
\* entry whose delivery step returned an error is never acknowledged.
C10_AckOnlyAfterBroadcast ==
    /\ \A k \in 1..Len(events) :
          /\ events[k].op = "ack" =>
                k > 1 /\ events[k - 1] = [op |-> "broadcast", id |-> events[k].id]
          /\ (events[k].op = "broadcast" /\ k < Len(events)) =>
                events[k + 1] = [op |-> "ack", id |-> events[k].id]
          /\ events[k].op = "failed" =>
                \A j \in 1..Len(events) : ~(events[j].op = "ack" /\ events[j].id = events[k].id)
          /\ \A j \in 1..k : events[j].id <= events[k].id
    /\ cpc = "ack" =>
          events # <<>> /\ LastOf(events) = [op |-> "broadcast", id |-> Head(messages)]

\* a batch of two: the first entry failed in delivery and was not acknowledged,
\* the second was broadcast and then acknowledged
C10_Witness ==
    /\ cpc = "read"
    /\ events = <<[op |-> "failed", id |-> 1], [op |-> "broadcast", id |-> 2],
                  [op |-> "ack", id |-> 2]>>
    /\ pel = {1}

\* the entry was handed to the consumer by the group and can be decoded
Handed(id) ==
    /\ group_created
    /\ id \in 1..Len(stream)
    /\ id <= group_last_delivered
    /\ from_redis_stream(stream[id])

Broadcasted(id) == \E k \in 1..Len(events) : events[k] = [op |-> "broadcast", id |-> id]

EventsOf(id) == {k \in 1..Len(events) : events[k].id = id}

GroupNow == [last_delivered |-> group_last_delivered, pel |-> pel]

\* C13: create_consumer_group on a group that exists already (BUSYGROUP) succeeds
\* and leaves the group's last-delivered id, its pending entries and the stream
\* as they were; calling it again changes nothing more.
C13_EnsureGroupIsIdempotent ==
    [][(CreateGroup(TRUE) /\ group_created) =>
          /\ cpc' = "read"
          /\ stream' = stream
          /\ group_last_delivered' = group_last_delivered
          /\ pel' = pel
          /\ create_consumer_group(TRUE, create_consumer_group(TRUE, GroupNow))
                = create_consumer_group(TRUE, GroupNow)]_vars

\* the server came up again on a group with delivered and pending entries, and
\* has not read since
C13_Witness ==
    /\ restarts = 1
    /\ cpc = "read"
    /\ proc_metrics.batches_processed = 0
    /\ group_last_delivered = 2
    /\ pel = {1, 2}

\* C14: the group starts at the end of the stream: an entry appended before the
\* group was created is never delivered to the consumer.
C14_GroupStartsAtEnd ==
    \A id \in 1..entries_at_creation :
        /\ id \notin pel
        /\ id \notin Range(messages)
        /\ EventsOf(id) = {}

\* C15: a failed read never ends the consumer loop: after any number of failed
\* reads in a row the processor waits and reads again.
C15_ReadErrorsNeverStop == ~(cpc = "stopped" /\ consecutive_errors >= 1)

\* C27: when the read finds the consumer group missing and the group can be
\* made again, the group exists afterwards, positioned at its start with nothing
\* pending, the iteration is an empty batch and not an error (no failure is
\* counted, consecutive_errors is 0, nothing is delivered), and the processor is
\* back at its read.
C27_MissingGroupIsEmptyBatch ==
    [][ReadNoGroup(TRUE) =>
          /\ group_created'
          /\ group_last_delivered' = GroupStartId
          /\ pel' = {}
          /\ messages' = <<>>
          /\ cpc' = "read"
          /\ consecutive_errors' = 0
          /\ proc_metrics'.messages_failed = proc_metrics.messages_failed
          /\ proc_metrics'.batches_processed = proc_metrics.batches_processed + 1
          /\ proc_metrics'.messages_processed = proc_metrics.messages_processed
          /\ events' = events
          /\ stream' = stream]_vars

\* the group was made again on a stream that had entries, no failure was ever
\* counted, and the next read has handed over an entry of the stream
C27_Witness ==
    /\ group_created
    /\ entries_at_creation > 0
    /\ proc_metrics.messages_failed = 0
    /\ cpc = "deliver"
    /\ messages # <<>>

(***************************************************************************)
(* Claims about the client registry.                                       *)
(***************************************************************************)
\* the registered clients whose channel has lost its receiving half
ClosedClients == {id \in DOMAIN clients : ~channels[clients[id]].open}

IsBroadcastSend == \E kind \in BroadcastKinds : BroadcastSend(kind)

\* C16: broadcast and ping_all over n clients of which k have closed channels
\* report successful = n-k and the k failed ids, and when they have returned with
\* no add or remove in between, the registry holds exactly the n-k clients
\* whose send succeeded.
C16_BroadcastCountsAndCleansUp ==
    [][/\ IsBroadcastSend =>
             /\ bc_result'.successful = Cardinality(DOMAIN clients) - Cardinality(ClosedClients)
             /\ bc_result'.failed = ClosedClients
       /\ ((IsBroadcastSend \/ BroadcastRemove) /\ bc_pc' = "idle" /\ ~bc_disturbed') =>
             /\ DOMAIN clients' \cap bc_result'.failed = {}
             /\ Cardinality(DOMAIN clients') = bc_result'.successful
             /\ reg_last'.op \in BroadcastKinds]_vars

\* a broadcast over three clients, one of them closed, has returned: two
\* successes, one failure, two clients left
C16_Witness ==
    /\ bc_pc = "idle"
    /\ reg_last.op = "broadcast"
    /\ ~bc_disturbed
    /\ bc_result.successful = 2
    /\ Cardinality(bc_result.failed) = 1
    /\ Cardinality(DOMAIN clients) = 2

\* C17: remove_client of an id that is not registered leaves the registry as it
\* is, removing twice is the same as removing once, and no other client is removed.
C17_RemoveIsIdempotent ==
    [][\A id \in ClientIds : RemoveClient(id) =>
          /\ id \notin DOMAIN clients => clients' = clients
          /\ id \notin DOMAIN clients'
          /\ \A other \in DOMAIN clients \ {id} :
                other \in DOMAIN clients' /\ clients'[other] = clients[other]
          /\ remove_client(clients', id) = clients']_vars

\* an id that was not registered has just been removed from a registry of two
C17_Witness ==
    /\ reg_last.op = "remove"
    /\ ~reg_last.was_present
    /\ Cardinality(DOMAIN clients) = 2

\* C18: add_client leaves the id registered with the sender it was given and
\* returns the number of clients registered right after the insertion; adding an
\* id that is registered replaces its sender and does not raise the count.
C18_AddReturnsCount ==
    [][\A id \in ClientIds : AddClient(id) =>
          /\ id \in DOMAIN clients'
          /\ clients'[id] = Len(channels')
          /\ channels'[clients'[id]] = NewChannel
          /\ id \in DOMAIN clients => Cardinality(DOMAIN clients') = Cardinality(DOMAIN clients)
          /\ reg_last'.returned = {Cardinality(DOMAIN clients')}]_vars

\* C19: the messages queued for a client and not yet written to its socket never
\* exceed the configured capacity: on a full queue the broadcast disconnects the
\* client or drops the oldest message.
C19_SendQueueIsBounded ==
    \A id \in DOMAIN clients : channels[clients[id]].queued <= QueueCapacity

(***************************************************************************)
(* Claims about the ClientManager under its lock.                          *)
(***************************************************************************)
\* task t is in the send loop of broadcast or ping_all
Sending(t) == task[t].pc = "scan" /\ task[t].op \in {"broadcast", "ping_all"}

\* the clients t has sent to, each once, and those still to come are the registry
OneAttemptEach(t) ==
    /\ DOMAIN task[t].attempts \cup task[t].todo = DOMAIN members
    /\ DOMAIN task[t].attempts \cap task[t].todo = {}
    /\ \A id \in DOMAIN task[t].attempts : task[t].attempts[id] = 1
    /\ task[t].marked \subseteq DOMAIN task[t].attempts

\* C28: during one broadcast every client registered when the scan starts gets
\* exactly one send attempt, whatever sends failed before, and nothing is added
\* to or removed from the registry until the scan is over.
C28_OneAttemptPerClient ==
    [][/\ \A t \in Tasks : Sending(t)' => OneAttemptEach(t)'
       /\ (\E t \in Tasks : Sending(t)) => DOMAIN members' = DOMAIN members]_vars

\* the broadcast has gone over two clients: the send to one failed, the other
\* got its message all the same
C28_Witness ==
    /\ Sending(Processor)
    /\ task[Processor].todo = {}
    /\ Cardinality(DOMAIN task[Processor].attempts) = 2
    /\ Cardinality(task[Processor].marked) = 1

\* task t is in cleanup_inactive
Cleaning(t) == task[t].op = "cleanup_inactive" /\ task[t].pc # "idle"

\* C29: cleanup_inactive marks a client exactly when, as the scan looks at it,
\* its last activity is at least client_timeout_secs old; it removes the marked
\* clients and no other, and returns Ok with the marked ids.
C29_CleanupRemovesInactive ==
    [][\A t \in Tasks : Cleaning(t) =>
          /\ ScanStep(t, TRUE) =>
                \A id \in task[t].todo \ task'[t].todo :
                    /\ task[t].todo \ task'[t].todo = {id}
                    /\ id \in task'[t].marked <=> members[id] >= client_timeout_secs
                    /\ task'[t].marked \ {id} = task[t].marked
          /\ task[t].pc \in {"prune", "wait_write"} =>
                /\ task[t].todo # {}
                /\ task[t].todo \subseteq task[t].marked
          /\ (GrantWrite(t) \/ (PruneRequest(t) /\ CanWrite)) =>
                LET id == IF task[t].pc = "prune" THEN next_id(task[t].todo) ELSE task[t].id
                IN /\ id \in task[t].todo
                   /\ id \notin DOMAIN members'
                   /\ \A c \in DOMAIN members \ {id} :
                         c \in DOMAIN members' /\ members'[c] = members[c]
          /\ task'[t].pc = "idle" =>
                /\ task'[t] = Returned("cleanup_inactive", task[t].marked)
                /\ Cardinality(task[t].todo) <= 1]_vars

\* cleanup_inactive has returned one id of a registry of two, and the other
\* client is still registered
C29_Witness ==
    /\ task[Keeper].pc = "idle"
    /\ task[Keeper].op = "cleanup_inactive"
    /\ Cardinality(task[Keeper].marked) = 1
    /\ client_timeout_secs > 0
    /\ DOMAIN members # {}
    /\ DOMAIN members \cap task[Keeper].marked = {}

\* C30: no task holds a read guard of the registry while it asks for the write
\* guard, and every call of the ClientManager that has begun returns.
C30_NoTaskWaitsForever ==
    /\ [](\A t \in Tasks : task[t].pc \in {"prune", "wait_write"} => t \notin readers)
    /\ \A t \in Tasks : (task[t].pc # "idle") ~> (task[t].pc = "idle")

\* the ping task scans under its read guard; behind it wait the processor, to
\* remove a client its broadcast failed on, and after it a handler
C30_Witness ==
    /\ Keeper \in readers
    /\ Len(waiters) >= 2
    /\ Head(waiters) = Processor
    /\ task[Processor].pc = "wait_write"
    /\ waiters[2] \in Handlers

(***************************************************************************)
(* Claims about the pipeline counters.                                     *)
(***************************************************************************)
\* C20: blocks_processed, transactions_found and errors_count never decrease,
\* whatever the outcomes of the blocks of a tick.
C20_CountersNeverDecrease ==
    [][/\ metrics'.blocks_processed >= metrics.blocks_processed
       /\ metrics'.transactions_found >= metrics.transactions_found
       /\ metrics'.errors_count >= metrics.errors_count]_vars

\* all three counters have moved: blocks were processed, transfers found, and
\* a block failed
C20_Witness ==
    /\ metrics.blocks_processed >= 2
    /\ metrics.transactions_found >= 2
    /\ metrics.errors_count >= 1

(***************************************************************************)
(* Claims about a transfer on the wire.                                    *)
(***************************************************************************)
\* C21: the amount string is whole.fraction with exactly d fraction digits
\* (zero-padded) and whole * 10^d + fraction = a; it is never a value rounded
\* to two decimals.
C21_AmountIsExact ==
    wire_msg # Unset =>
        /\ Len(wire_msg.amount.fraction) = wire_tx.decimals
        /\ ParseDecimal(wire_msg.amount.whole) * Pow10(wire_tx.decimals)
              + ParseDecimal(wire_msg.amount.fraction) = wire_tx.value

\* C22: the entry written by the sink carries the fields stablecoin, amount,
\* from, to, block and tx_hash, and the consumer reads those names, so the
\* written entry decodes to the message that was written.
C22_EntryFieldsRoundTrip ==
    /\ wire_entry # Unset =>
          DOMAIN wire_entry = {"stablecoin", "amount", "from", "to", "block", "tx_hash"}
    /\ wire_decoded # Unset =>
          /\ wire_decoded.ok
          /\ wire_decoded.data = wire_msg

(***************************************************************************)
(* Claims about the life of a connection.                                  *)
(***************************************************************************)
\* the first half of C31 alone: the id of a connection whose handle_connection
\* has returned is not registered
ReturnedIsUnregistered == \A c \in ConnIds : conn_pc[c] = "returned" => c \notin conn_clients

\* C31: once handle_connection has returned, the id of its client is not in the
\* registry, and an id is registered only until the first disconnect of its
\* connection, failed send to it or eviction of it: a registered id has met none
\* of these, or the removal that follows a scan is on its way
C31_RegisteredUntilFirstEnd ==
    /\ ReturnedIsUnregistered
    /\ \A c \in conn_clients :
          /\ conn_pc[c] \in {"welcome", "serving"}
          /\ conn_over[c] = "none" \/ c \in conn_marked

(***************************************************************************)
(* Claims about the shutdown of the poller.                                *)
(***************************************************************************)
\* C32: a shutdown signal that arrives during a catch-up range does not cut the
\* range short: run leaves its loop only from the select, with every block of the
\* last range attempted; with the signal noted the for loop still goes on block by
\* block; and once run has left its loop through the ctrl_c arm nothing more
\* happens: no tick starts and run does not end in an error
C32_ShutdownFinishesRange ==
    [][/\ (pc # "Shutdown" /\ pc' = "Shutdown") =>
              /\ pc = "Idle"
              /\ blocks_to_process = <<>>
              /\ AttemptedBlocks = rangeOf
              /\ shutdown_signal'
       /\ (pc = "CatchingUp" /\ shutdown_signal) =>
              /\ blocks_to_process' = Tail(blocks_to_process)
              /\ pc' = IF Tail(blocks_to_process) = <<>> THEN "Idle" ELSE "CatchingUp"
       /\ pc = "Shutdown" => UNCHANGED pollerVars]_vars

\* the signal arrived during a range of two blocks or more, and the range was
\* finished before run came back to its select
C32_Witness ==
    /\ pc = "Idle"
    /\ shutdown_signal
    /\ Len(rangeOf) >= 2
    /\ AttemptedBlocks = rangeOf

(***************************************************************************)
(* Claims about RedisPublisher::connect_with_retry.                        *)
(***************************************************************************)
\* C33: the delay slept before retry k (k = 0, 1, 2, ...) is min(2^k, 30) seconds,
\* and so is the delay that retry retry_count would wait
C33_DelayIsCappedDoubling ==
    /\ Len(slept) = retry_count
    /\ \A k \in 0..(Len(slept) - 1) : slept[k + 1] = Min(2 ^ k, 30)
    /\ delay = Min(2 ^ retry_count, 30)

\* six retries were slept for, the last of them for the cap
C33_Witness ==
    /\ Len(slept) >= 6
    /\ slept[5] = 16
    /\ slept[6] = 30

\* C34: connect_with_retry comes to an end; the first attempt that succeeds
\* returns the connection; it returns no connection after exactly
\* max_retries + 1 failed attempts, never earlier; and without a connection
\* publish issues no command and leaves the publisher as it is
C34_ConnectTerminates ==
    /\ <>(connection # "connecting")
    /\ [](connection = "None" => failed_attempts = max_retries + 1)
    /\ [](connection # "None" => failed_attempts <= max_retries)
    /\ [][Attempt(TRUE) => connection' = "Some"]_vars
    /\ [][connection = "None" => (connection' = "None" /\ xadds' = xadds)]_vars

\* connect_with_retry gave up after three attempts or more, and a transfer was
\* published since: nothing was sent
C34_Witness ==
    /\ connection = "None"
    /\ failed_attempts >= 3
    /\ publish_calls >= 1
    /\ xadds = 0

(***************************************************************************)
(* Claims about the publish counters.                                      *)
(***************************************************************************)
\* the calls of the running publish_all on a sink of kind k that returned Ok
OkCalls(k) == {i \in DOMAIN sink_calls : publishers[sink_calls[i].sink] = k /\ sink_calls[i].ok}

\* C35: when publish_all has dispatched a transfer, redis_publishes has gone up by
\* one for every append to the stream that succeeded and websocket_broadcasts by
\* one for every local broadcast: each counter is at least the number of such
\* calls of the dispatch that has just returned
C35_PublishCountersFollow ==
    pub_pc = "returned" =>
        /\ metrics.redis_publishes >= Cardinality(OkCalls("Redis"))
        /\ metrics.websocket_broadcasts >= Cardinality(OkCalls("WebSocket"))

(***************************************************************************)
(* Claims about what the poller hands to publish_all.                      *)
(***************************************************************************)
RECURSIVE SumOver(_, _)
\* the sum of f over the keys in ks
SumOver(f, ks) ==
    IF ks = {} THEN 0
    ELSE LET k == CHOOSE x \in ks : TRUE IN f[k] + SumOver(f, ks \ {k})

\* C36: whatever the ticks and the failures, no transfer log of a block is handed
\* to publish_all more than once
C36_NoTransferHandedTwice == \A k \in DOMAIN handed : handed[k] <= 1

\* C37: transactions_found is the number of transfers handed to publish_all, and
\* blocks_processed + errors_count is the number of blocks attempted
C37_CountersMatchWork ==
    /\ metrics.transactions_found = SumOver(handed, DOMAIN handed)
    /\ metrics.blocks_processed + metrics.errors_count = attempted

\* the second half of C37 alone
AttemptsAreCounted == metrics.blocks_processed + metrics.errors_count = attempted

(***************************************************************************)
(* Claims about the acknowledgement of broadcast entries.                  *)
(***************************************************************************)
\* C38: an entry that decoded is acknowledged once its broadcast has returned,
\* whatever the broadcast returned: the broadcast is followed at once by the
\* acknowledge of the same entry; an entry that did not decode is never
\* acknowledged and stays in the pending list of the group
C38_BroadcastIsAcknowledged ==
    /\ [][\A result \in BroadcastResults :
              DeliverResult(TRUE, result) => (cpc' = "ack" /\ messages' = messages)]_vars
    /\ [](\A n \in DOMAIN events :
              events[n].op = "broadcast" =>
                  IF n < Len(events)
                  THEN events[n + 1] = [op |-> "ack", id |-> events[n].id]
                  ELSE cpc = "ack" /\ Head(messages) = events[n].id)
    /\ [](\A id \in 1..group_last_delivered :
              ~from_redis_stream(stream[id]) =>
                  /\ id \in pel
                  /\ \A n \in DOMAIN events : events[n].op = "ack" => events[n].id # id)

\* an entry was acknowledged after a broadcast whose one send failed and that
\* reached nobody, while an entry that did not decode waits in the pending list
C38_Witness ==
    /\ Len(events) >= 2
    /\ events[Len(events)].op = "ack"
    /\ events[Len(events) - 1] = [op |-> "broadcast", id |-> events[Len(events)].id]
    /\ last_broadcast = [successful |-> 0, failed |-> 1]
    /\ \E id \in pel : ~from_redis_stream(stream[id])

====
